---- MODULE Spec2Model ----
(***************************************************************************)
(* Weight Logger backend: the users and entries tables, the Service and    *)
(* UserManager operations on them, and token issue / verification.         *)
(*                                                                         *)
(* Every Service / UserManager method runs inside one                      *)
(* `with self.database.Session.begin()` block, so each is one atomic       *)
(* action here: it commits as a whole or rolls back as a whole.  The       *)
(* handlers of backend.py call the Service without awaiting, so a request  *)
(* is answered before the next one is taken: an operation leaves its       *)
(* outcome in `last`, and Return hands it to the caller.                   *)
(*                                                                         *)
(* Representation                                                          *)
(*   date    an integer, Date(y, m, d), order-preserving in the calendar   *)
(*   weight  an integer number of hundredths of a unit (70.25 is 7025)     *)
(*   text    a sequence of one-character strings                           *)
(***************************************************************************)
EXTENDS Integers, Sequences, FiniteSets, TLC

VARIABLES
    users,          \* rows of table "users"    (UserRow)
    entries,        \* rows of table "entries"  (WeightLogEntryRow)
    users_id_seq,   \* next value of the identity sequence of users.id
    entries_id_seq, \* next value of the identity sequence of entries.id
    now,            \* datetime.utcnow(), in hours since the service started
    tokens,         \* tokens issued by create_access_token, held by clients
    last,           \* the operation that has run and whose outcome its caller
                    \* is being given: what it returned or raised
    plot_lock,      \* Service.plot_lock, an asyncio.Lock
    graph,          \* the get_entries_graph calls in progress, one per request
    txns,           \* the database transactions of concurrent writers
    server,         \* the PostgreSQL server: what exists on it, the rows of
                    \* table "schema"
    proc,           \* the administrative procedure that is running (a start
                    \* of the backend, a restore, wl-admin init) and where
    files,          \* the deployment's directories and files
    keys            \* util.keys, the keys the backend has loaded

vars == <<users, entries, users_id_seq, entries_id_seq, now, tokens, last,
          plot_lock, graph, txns, server, proc, files, keys>>

\* The variables of the server, the files and the procedures on them
deployment == <<server, proc, files, keys>>

----------------------------------------------------------------------------
(* Bounds of the model *)

MaxUserId == 101        \* the users identity sequence is cut off after this id
MaxEntryId == 101       \* the entries identity sequence is cut off after this id
MaxTokens == 2          \* tokens kept by clients
MaxRequests == 3        \* concurrent requests for the graph
MaxWriters == 2         \* concurrent transactions writing entries
MaxWeight == 15000      \* the largest weight converted, in hundredths

(* Program constants *)

IDENTITY_START == 100
USERNAME_MAX_LEN == 32
ACCESS_TOKEN_EXPIRE_HOURS == 24
BAD_REQUEST == 400
UNAUTHORIZED == 401
INTERNAL_SERVER_ERROR == 500
PW_LEN == 22
PW_BIT_COUNT == 128
TOKEN_BIT_COUNT == 256
EXPECTED_TOKEN_LEN == 64
SCHEMA_VER_MAJOR == 1
SCHEMA_VER_MINOR == 1

----------------------------------------------------------------------------
(* Values the operations are called with *)

Date(y, m, d) == (y * 12 + (m - 1)) * 31 + (d - 1)

Dates == {Date(2022, 3, 22), Date(2022, 3, 23)}

\* 70.04, which add_entry rounds to 70.0 and update_entry stores as it is
Weights == {7004}

Usernames == {"Betty", "Wilma", "a_username_that_is_33_chars_long_"}

\* The arguments add_user is called with: (username, metric, goal_weight,
\* password); goal weights 68.0 and 70.25
NewUsers ==
    { <<"Betty", FALSE, 6800, "boop de doop">>,
      <<"Wilma", TRUE, 7025, "boop de doop">>,
      <<"Wilma", FALSE, 6800, "">>,
      <<"a_username_that_is_33_chars_long_", TRUE, 6800, "boop de doop">> }

UserIds == IDENTITY_START .. MaxUserId

EntryIds == IDENTITY_START .. MaxEntryId

\* WeightLogEntry values handed to add_entry / update_entry
EntryArgs ==
    [id : EntryIds, user_id : UserIds, date : Dates, weight : Weights,
     is_metric : BOOLEAN]

\* add_entry does not read entry.id and update_entry does not read
\* entry.user_id: one value of each stands for all
AddEntryArgs == {entry \in EntryArgs : entry.id = IDENTITY_START}

UpdateEntryArgs == {entry \in EntryArgs : entry.user_id = IDENTITY_START}

\* The requests for GET /entries/graph that can be in progress at once
Requests == 1 .. MaxRequests

\* The writers whose transactions can be open at once
Writers == 1 .. MaxWriters

----------------------------------------------------------------------------
(* Errors and the record of the last operation *)

\* What the caller of operation `op` gets: the exception raised (ex, with its
\* status and the fixed part of its message as detail) or the value returned
\* (ex = "none", status OK, ret the returned values).
\* log is the message the operation wrote to the server log, when the model
\* keeps it.
Outcome(op, status, detail, ex, ret) ==
    [op |-> op, status |-> status, detail |-> detail, ex |-> ex, ret |-> ret,
     log |-> ""]

Returned(op, ret) == Outcome(op, 200, "", "none", ret)

\* No operation is being answered
NoOperation == Outcome("", 200, "", "none", <<>>)

\* logging.info / logging.warning before raising
Logged(outcome, message) == [outcome EXCEPT !.log = message]

\* create_http_ex: an HTTPException with the given status
create_http_ex(op, detail, status) ==
    Outcome(op, status, detail, "HTTPException", <<>>)

\* WeightLogError.__init__ with an explicit status
WeightLogErrorWithStatus(op, detail, status) ==
    Outcome(op, status, detail, "WeightLogError", <<>>)

\* WeightLogError.__init__: status defaults to INTERNAL_SERVER_ERROR
WeightLogError(op, detail) ==
    WeightLogErrorWithStatus(op, detail, INTERNAL_SERVER_ERROR)

----------------------------------------------------------------------------
(* Helpers *)

\* round(x, 1) on a weight in hundredths: to the nearest tenth, ties to even
round_1(w) ==
    LET q == w \div 10
        r == w % 10
    IN  IF r < 5 THEN q * 10
        ELSE IF r > 5 THEN (q + 1) * 10
        ELSE IF q % 2 = 0 THEN q * 10 ELSE (q + 1) * 10

\* passlib CryptContext.hash / verify: the hash is opaque, verify succeeds
\* exactly for the password that was hashed
crypt_hash(password) == [argon2 |-> password]

crypt_verify(password, hash) == hash = crypt_hash(password)

\* session.query(UserRow).filter(UserRow.username == username).first()
UserRowsByUsername(username) == {u \in users : u.username = username}

UserRowsById(user_id) == {u \in users : u.id = user_id}

\* session.query(WeightLogEntryRow).filter(id == entry_id).first()
EntryRowsById(entry_id) == {r \in entries : r.id = entry_id}

\* Service.query_for_entry_by_user_and_date
query_for_entry_by_user_and_date(rows, user_id, entry_date) ==
    {r \in rows : r.user_id = user_id /\ r.date = entry_date}

\* EntryIntegrityError without uc1: only the foreign key is enforced
EntryIntegrityError_without_uc1(rows, row) ==
    \A u \in users : u.id # row.user_id

\* The constraints of table entries: uc1 (user_id, date) unique and the
\* foreign key user_id -> users.id.  TRUE when inserting or updating to `row`
\* raises IntegrityError.
EntryIntegrityError(rows, row) ==
    \/ \E r \in rows : r.id # row.id /\ r.user_id = row.user_id /\ r.date = row.date
    \/ \A u \in users : u.id # row.user_id

\* create_row_from_entry that does not copy the unit flag
create_row_from_entry_metric_only(entry, id) ==
    [id |-> id, user_id |-> entry.user_id, date |-> entry.date,
     weight |-> entry.weight, metric |-> TRUE]

\* create_row_from_entry, with the id the database generates
create_row_from_entry(entry, id) ==
    [id |-> id, user_id |-> entry.user_id, date |-> entry.date,
     weight |-> entry.weight, metric |-> entry.is_metric]

----------------------------------------------------------------------------
(* Units: util.py.  Weights are hundredths, KG_PER_LB is 0.45359237; the  *)
(* products are split so that every intermediate value fits 32 bits.       *)

KG_PER_LB_E8 == 45359237

\* round(lbs * KG_PER_LB, 1): with lbs * 4535 = qa * 10^5 + ra, the product
\* lbs * KG_PER_LB_E8 is qa * 10^9 + ra * 10^4 + lbs * 9237 in units of
\* 10^-10, and a tenth is 10^9 of them
convert_to_metric(lbs) ==
    LET a == lbs * (KG_PER_LB_E8 \div 10000)
        b == lbs * (KG_PER_LB_E8 % 10000)
        rest == (a % 100000) * 10000 + b
        tenths == (a \div 100000) + (rest \div 1000000000)
        rem == rest % 1000000000
    IN  IF rem > 500000000 \/ (rem = 500000000 /\ tenths % 2 = 1)
        THEN (tenths + 1) * 10 ELSE tenths * 10

\* Long division of kilograms * 10^k by KG_PER_LB_E8, one decimal digit a step
RECURSIVE DivSteps(_, _, _)
DivSteps(q, r, k) ==
    IF k = 0 THEN [q |-> q, r |-> r]
    ELSE DivSteps(q * 10 + (r * 10) \div KG_PER_LB_E8, (r * 10) % KG_PER_LB_E8, k - 1)

\* round(kilograms / KG_PER_LB, 1), the rounding convert_to_metric has
convert_to_english_one_decimal(kilograms) ==
    LET d == DivSteps(kilograms \div KG_PER_LB_E8, kilograms % KG_PER_LB_E8, 7)
    IN  IF 2 * d.r > KG_PER_LB_E8 THEN (d.q + 1) * 10 ELSE d.q * 10

\* round(kilograms / KG_PER_LB, 0): kilograms (hundredths) * 10^6 /
\* KG_PER_LB_E8 is the number of whole pounds; KG_PER_LB_E8 is odd, so there
\* are no ties
convert_to_english(kilograms) ==
    LET d == DivSteps(kilograms \div KG_PER_LB_E8, kilograms % KG_PER_LB_E8, 6)
    IN  IF 2 * d.r > KG_PER_LB_E8 THEN (d.q + 1) * 100 ELSE d.q * 100

\* determine_units_name
determine_units_name(metric) == IF metric THEN "kg" ELSE "lb"

----------------------------------------------------------------------------
(* Reading rows.  A value that may be None is a sequence of length 0 or 1. *)

\* create_entry_from_row without its conversion of units
create_entry_from_row_stored_weight(row, metric) ==
    [id |-> row.id, user_id |-> row.user_id, date |-> row.date,
     weight |-> row.weight, is_metric |-> metric]

\* create_entry_from_row
create_entry_from_row(row, metric) ==
    LET weight == IF metric # row.metric
                  THEN IF metric THEN convert_to_metric(row.weight)
                                 ELSE convert_to_english(row.weight)
                  ELSE row.weight
    IN  [id |-> row.id, user_id |-> row.user_id, date |-> row.date,
         weight |-> weight, is_metric |-> metric]

\* create_user_from_row
create_user_from_row(row) ==
    [id |-> row.id, username |-> row.username, metric |-> row.metric,
     units_name |-> determine_units_name(row.metric),
     goal_weight |-> row.goal_weight, password |-> row.password]

\* the rows in order of id, that is of insertion
RECURSIVE order_by_id(_)
order_by_id(rows) ==
    IF rows = {} THEN <<>>
    ELSE LET first == CHOOSE r \in rows : \A o \in rows : r.id <= o.id
         IN  <<first>> \o order_by_id(rows \ {first})

\* .order_by(WeightLogEntryRow.date).all()
RECURSIVE order_by_date(_)
order_by_date(rows) ==
    IF rows = {} THEN <<>>
    ELSE LET first == CHOOSE r \in rows : \A o \in rows : r.date <= o.date
         IN  <<first>> \o order_by_date(rows \ {first})

\* the filter of Service.get_entries
get_entries_filter(rows, user) == {r \in rows : r.user_id = user.id}

\* Service.get_entries
get_entries(user) ==
    LET rows == order_by_date(get_entries_filter(entries, user))
    IN  [i \in 1 .. Len(rows) |-> create_entry_from_row(rows[i], user.metric)]

\* Service.get_entry_from_entry_id
get_entry_from_entry_id(entry_id) ==
    LET found == EntryRowsById(entry_id)
    IN  IF found = {} THEN <<>>
        ELSE LET row == CHOOSE r \in found : TRUE
             IN  <<create_entry_from_row(row, row.metric)>>

\* Service.get_entry_from_user_id
get_entry_from_user_id(user_id, entry_date) ==
    LET found == query_for_entry_by_user_and_date(entries, user_id, entry_date)
    IN  IF found = {} THEN <<>>
        ELSE LET row == CHOOSE r \in found : TRUE
             IN  <<create_entry_from_row(row, row.metric)>>

\* UserManager.get_user_from_username
get_user_from_username(username) ==
    LET found == UserRowsByUsername(username)
    IN  IF found = {} THEN <<>>
        ELSE <<create_user_from_row(CHOOSE u \in found : TRUE)>>

\* UserManager.get_user_from_id
get_user_from_id(user_id) ==
    LET found == UserRowsById(user_id)
    IN  IF found = {} THEN <<>>
        ELSE <<create_user_from_row(CHOOSE u \in found : TRUE)>>

\* UserManager.get_users: the users, as a set (the query has no order)
get_users == {create_user_from_row(row) : row \in users}

----------------------------------------------------------------------------
(* UserManager *)

\* UserRow(...) that does not take the unit preference it is given
UserRow_metric_default(id, username, metric, goal_weight, password) ==
    [id |-> id, username |-> username, metric |-> TRUE,
     goal_weight |-> goal_weight, password |-> password]

\* UserRow(username, metric, goal_weight, password) of add_user, with the id
\* the database generates
UserRow(id, username, metric, goal_weight, password) ==
    [id |-> id, username |-> username, metric |-> metric,
     goal_weight |-> goal_weight, password |-> password]

\* UserManager.check_and_hash_password: the hash, or <<>> when it raises
check_and_hash_password(password) ==
    IF Len(password) = 0 THEN <<>> ELSE <<crypt_hash(password)>>

\* UserManager.add_user
add_user(username, metric, goal_weight, password) ==
    LET hashed == check_and_hash_password(password)
        row == UserRow(users_id_seq, username, metric, goal_weight, hashed[1])
    IN  /\ UNCHANGED <<entries, entries_id_seq, now, tokens>>
        /\ IF Len(username) > USERNAME_MAX_LEN
           THEN /\ last' = WeightLogError("add_user", "Maximum length for username")
                /\ UNCHANGED <<users, users_id_seq>>
           ELSE IF hashed = <<>>
           THEN /\ last' = WeightLogError("add_user", "Password is empty")
                /\ UNCHANGED <<users, users_id_seq>>
           ELSE /\ users_id_seq <= MaxUserId
                /\ users_id_seq' = users_id_seq + 1
                /\ IF UserRowsByUsername(username) # {}
                   THEN /\ last' = WeightLogError("add_user", "already exists")
                        /\ UNCHANGED users
                   ELSE /\ users' = users \cup {row}
                        /\ last' = Returned("add_user", <<>>)

\* delete_user that leaves the entries of the user
delete_user_entries_kept(rows, user_id) == rows

\* delete_user, "Delete entries for this user": the rows that remain
delete_user_entries(rows, user_id) == {r \in rows : r.user_id # user_id}

\* UserManager.delete_user
delete_user(username) ==
    LET found == UserRowsByUsername(username)
    IN  /\ UNCHANGED <<users_id_seq, entries_id_seq, now, tokens>>
        /\ IF found = {}
           THEN /\ last' = WeightLogError("delete_user", "not found")
                /\ UNCHANGED <<users, entries>>
           ELSE LET user_row == CHOOSE u \in found : TRUE
                IN  /\ entries' = delete_user_entries(entries, user_row.id)
                    /\ users' = users \ {user_row}
                    /\ last' = Returned("delete_user", <<>>)

----------------------------------------------------------------------------
(* Service: entries *)

\* Service.add_entry
add_entry(entry) ==
    LET rounded == [entry EXCEPT !.weight = round_1(entry.weight)]
        row == create_row_from_entry(rounded, entries_id_seq)
    IN  /\ entries_id_seq <= MaxEntryId
        /\ entries_id_seq' = entries_id_seq + 1
        /\ UNCHANGED <<users, users_id_seq, now, tokens>>
        /\ IF EntryIntegrityError(entries, row)
           THEN /\ last' = create_http_ex("add_entry", "already exists", BAD_REQUEST)
                /\ UNCHANGED entries
           ELSE /\ entries' = entries \cup {row}
                /\ last' = Returned("add_entry", <<row.id>>)

\* update_row that leaves the unit flag of the row as it was
update_row_keeps_metric(row, entry) ==
    [row EXCEPT !.date = entry.date, !.weight = entry.weight]

\* Service.update_entry, "Update row.": the row with the entry's values
update_row(row, entry) ==
    [row EXCEPT !.date = entry.date, !.weight = entry.weight,
                !.metric = entry.is_metric]

\* Service.update_entry
update_entry(entry) ==
    LET found == EntryRowsById(entry.id)
    IN  /\ UNCHANGED <<users, users_id_seq, entries_id_seq, now, tokens>>
        /\ IF found = {}
           THEN /\ last' = create_http_ex("update_entry", "not found", BAD_REQUEST)
                /\ UNCHANGED entries
           ELSE LET row == CHOOSE r \in found : TRUE
                    updated == update_row(row, entry)
                IN  IF updated # row /\ EntryIntegrityError(entries, updated)
                    THEN /\ last' = create_http_ex("update_entry", "already exists", BAD_REQUEST)
                         /\ UNCHANGED entries
                    ELSE /\ entries' = (entries \ {row}) \cup {updated}
                         /\ last' = Returned("update_entry", <<>>)

\* delete_entry_query without the date filter
delete_entry_query_any_date(rows, user_id, entry_date) ==
    {r \in rows : r.user_id = user_id}

\* delete_entry_query without the user filter
delete_entry_query_any_user(rows, user_id, entry_date) ==
    {r \in rows : r.date = entry_date}

\* Service.delete_entry, "Find row to delete."
delete_entry_query(rows, user_id, entry_date) ==
    {r \in rows : r.user_id = user_id /\ r.date = entry_date}

\* Service.delete_entry
delete_entry(user_id, entry_date) ==
    LET found == delete_entry_query(entries, user_id, entry_date)
    IN  /\ UNCHANGED <<users, users_id_seq, entries_id_seq, now, tokens>>
        /\ IF found = {}
           THEN /\ last' = create_http_ex("delete_entry", "not found", BAD_REQUEST)
                /\ UNCHANGED entries
           ELSE LET row == CHOOSE r \in found : TRUE
                IN  /\ entries' = entries \ {row}
                    /\ last' = Returned("delete_entry", <<>>)

\* Service.delete_all_entries
delete_all_entries(user_id) ==
    /\ UNCHANGED <<users, users_id_seq, entries_id_seq, now, tokens>>
    /\ entries' = {r \in entries : r.user_id # user_id}
    /\ last' = Returned("delete_all_entries", <<>>)

\* Service.get_entries as a request: the caller gets the list, the
\* transaction it read in ends with nothing to write
Service_get_entries(user) ==
    /\ UNCHANGED <<users, entries, users_id_seq, entries_id_seq, now, tokens>>
    /\ last' = Returned("get_entries", get_entries(user))

----------------------------------------------------------------------------
(* Text: str.split, str.strip and the CSV parser of entry.py *)

Digits == {"0", "1", "2", "3", "4", "5", "6", "7", "8", "9"}

DigitVal(c) ==
    CASE c = "0" -> 0 [] c = "1" -> 1 [] c = "2" -> 2 [] c = "3" -> 3
      [] c = "4" -> 4 [] c = "5" -> 5 [] c = "6" -> 6 [] c = "7" -> 7
      [] c = "8" -> 8 [] c = "9" -> 9

Whitespace == {" ", "\t", "\r", "\n"}

\* str.split(sep): the pieces between occurrences of sep; never empty.
\* SepPositions are the places of sep in text, SepPosition(text, sep, k) is
\* the k-th of the places seps, with place 0 before the text and one place
\* after it.
SepPositions(text, sep) == {i \in 1 .. Len(text) : text[i] = sep}

SepPosition(text, seps, k) ==
    IF k = 0 THEN 0
    ELSE IF k > Cardinality(seps) THEN Len(text) + 1
    ELSE CHOOSE i \in seps : Cardinality({j \in seps : j < i}) = k - 1

split(text, sep) ==
    LET seps == SepPositions(text, sep)
        place == [k \in 0 .. Cardinality(seps) + 1 |-> SepPosition(text, seps, k)]
    IN  [k \in 1 .. Cardinality(seps) + 1 |->
            SubSeq(text, place[k - 1] + 1, place[k] - 1)]

\* str.strip(): without the leading and trailing whitespace
RECURSIVE lstrip(_)
lstrip(text) ==
    IF text # <<>> /\ Head(text) \in Whitespace THEN lstrip(Tail(text)) ELSE text

RECURSIVE rstrip(_)
rstrip(text) ==
    IF text # <<>> /\ text[Len(text)] \in Whitespace
    THEN rstrip(SubSeq(text, 1, Len(text) - 1)) ELSE text

strip(text) == rstrip(lstrip(text))

IsDigits(text) == text # <<>> /\ \A i \in 1 .. Len(text) : text[i] \in Digits

\* int() of a string of digits
RECURSIVE DigitsToInt(_)
DigitsToInt(text) ==
    IF text = <<>> THEN 0
    ELSE DigitsToInt(SubSeq(text, 1, Len(text) - 1)) * 10 + DigitVal(text[Len(text)])

\* What a parser gives: a value, or the error it raises
Parsed(value) == [ok |-> TRUE, value |-> value, error |-> "", line_no |-> 0]

ParseError(error, line_no) ==
    [ok |-> FALSE, value |-> <<>>, error |-> error, line_no |-> line_no]

EXPECTED_HEADERS == <<<<"D", "a", "t", "e">>, <<"W", "e", "i", "g", "h", "t">>, <<"U", "n", "i", "t", "s">>>>

\* A header check that only counts the columns
parse_csv_header_count_only(csv) ==
    LET lines == split(csv, "\n")
        headers == split(strip(lines[1]), ",")
    IN  IF Len(headers) # Len(EXPECTED_HEADERS) THEN ParseError("Expected columns", 1)
        ELSE Parsed(Tail(lines))

\* parse_csv_header: the lines after the header, or the error
parse_csv_header(csv) ==
    LET lines == split(csv, "\n")
        header_line == strip(lines[1])
        headers == split(header_line, ",")
        col_count == Len(EXPECTED_HEADERS)
    IN  IF Len(header_line) = 0 THEN ParseError("No column headers found", 1)
        ELSE IF Len(headers) # col_count THEN ParseError("Expected columns", 1)
        ELSE IF \E i \in 1 .. col_count : EXPECTED_HEADERS[i] # strip(headers[i])
        THEN ParseError("Expected column header", 1)
        ELSE Parsed(Tail(lines))

DaysInMonth(y, m) ==
    IF m \in {4, 6, 9, 11} THEN 30
    ELSE IF m # 2 THEN 31
    ELSE IF y % 4 = 0 /\ (y % 100 # 0 \/ y % 400 = 0) THEN 29 ELSE 28

\* parse_csv_date: datetime.strptime(value.strip(), "%Y-%m-%d"); %Y is four
\* digits, %m and %d one or two digits naming a month and a day of it
parse_csv_date(value, line_no) ==
    LET parts == split(strip(value), "-")
    IN  IF /\ Len(parts) = 3
           /\ IsDigits(parts[1]) /\ Len(parts[1]) = 4
           /\ IsDigits(parts[2]) /\ Len(parts[2]) \in {1, 2}
           /\ IsDigits(parts[3]) /\ Len(parts[3]) \in {1, 2}
           /\ DigitsToInt(parts[1]) >= 1
           /\ DigitsToInt(parts[2]) \in 1 .. 12
           /\ DigitsToInt(parts[3]) \in
                1 .. DaysInMonth(DigitsToInt(parts[1]), DigitsToInt(parts[2]))
        THEN Parsed(Date(DigitsToInt(parts[1]), DigitsToInt(parts[2]),
                         DigitsToInt(parts[3])))
        ELSE ParseError("Unable to parse date on line " \o ToString(line_no), line_no)

\* parse_csv_weight: float(value.strip()) for plain decimal numbers with at
\* most two fractional digits (the weights this model represents); anything
\* else that is not digits [. digits] raises ValueError
parse_csv_weight(value, line_no) ==
    LET parts == split(strip(value), ".")
        whole == parts[1]
        frac == IF Len(parts) = 2 THEN parts[2] ELSE <<>>
        frac2 == IF Len(frac) = 0 THEN <<"0", "0">>
                 ELSE IF Len(frac) = 1 THEN Append(frac, "0") ELSE frac
    IN  IF /\ Len(parts) \in {1, 2}
           /\ IsDigits(whole)
           /\ (Len(parts) = 2 => IsDigits(frac) /\ Len(frac) <= 2)
        THEN Parsed(DigitsToInt(whole) * 100 + DigitsToInt(frac2))
        ELSE ParseError("Unable to parse weight on line " \o ToString(line_no), line_no)

KG_STR == <<"k", "g">>

LB_STR == <<"l", "b">>

\* parse_csv_units
parse_csv_units(value, line_no) ==
    IF strip(value) = KG_STR THEN Parsed(TRUE)
    ELSE IF strip(value) = LB_STR THEN Parsed(FALSE)
    ELSE ParseError("Unable to parse units on line " \o ToString(line_no), line_no)

\* A line number that does not count the header
data_line_no_without_header(i) == i

\* line_no = line[0] + 2: the number, in the file, of the i-th line after the
\* header
data_line_no(i) == i + 1

\* The loop of create_entries_from_csv over lines[i ..]; an error message
\* is kept up to its line number, without the value it quotes
RECURSIVE ParseLines(_, _, _, _)
ParseLines(user_id, lines, i, parsed) ==
    IF i > Len(lines) THEN Parsed(parsed)
    ELSE
      LET line_no == data_line_no(i)
          values_str == strip(lines[i])
          values == split(values_str, ",")
      IN  IF Len(values_str) = 0 THEN ParseLines(user_id, lines, i + 1, parsed)
          ELSE IF Len(values) # Len(EXPECTED_HEADERS)
          THEN ParseError("Expected values on line " \o ToString(line_no), line_no)
          ELSE
            LET date == parse_csv_date(values[1], line_no)
                weight == parse_csv_weight(values[2], line_no)
                is_metric == parse_csv_units(values[3], line_no)
            IN  IF ~date.ok THEN date
                ELSE IF ~weight.ok THEN weight
                ELSE IF ~is_metric.ok THEN is_metric
                ELSE ParseLines(user_id, lines, i + 1,
                        Append(parsed,
                            [id |-> 0, user_id |-> user_id, date |-> date.value,
                             weight |-> weight.value, is_metric |-> is_metric.value]))

\* create_entries_from_csv
create_entries_from_csv(user_id, csv) ==
    LET header == parse_csv_header(csv)
    IN  IF ~header.ok THEN header
        ELSE ParseLines(user_id, header.value, 1, <<>>)

\* An upsert that only looks at the weight
csv_row_differs_weight_only(row, entry) == row.weight # entry.weight

\* `row.weight != entry.weight or row.metric != entry.is_metric`
csv_row_differs(row, entry) ==
    row.weight # entry.weight \/ row.metric # entry.is_metric

\* The save loop of add_entries_from_csv inside its one transaction: rows
\* and id_seq as the session sees them after the entries before
\* parsed[i]; failed when an INSERT raised IntegrityError.
RECURSIVE SaveEntries(_, _, _, _)
SaveEntries(parsed, i, rows, id_seq) ==
    IF i > Len(parsed) THEN [failed |-> FALSE, rows |-> rows, id_seq |-> id_seq]
    ELSE
      LET entry == parsed[i]
          found == query_for_entry_by_user_and_date(rows, entry.user_id, entry.date)
      IN  IF found = {}
          THEN LET row == create_row_from_entry(entry, id_seq)
               IN  IF EntryIntegrityError(rows, row)
                   THEN [failed |-> TRUE, rows |-> rows, id_seq |-> id_seq + 1]
                   ELSE SaveEntries(parsed, i + 1, rows \cup {row}, id_seq + 1)
          ELSE LET row == CHOOSE r \in found : TRUE
               IN  IF csv_row_differs(row, entry)
                   THEN SaveEntries(parsed, i + 1,
                            (rows \ {row}) \cup
                              {[row EXCEPT !.weight = entry.weight,
                                           !.metric = entry.is_metric]},
                            id_seq)
                   ELSE SaveEntries(parsed, i + 1, rows, id_seq)

\* CSV files
CSV_HEADER == <<"D", "a", "t", "e", ",", " ", "W", "e", "i", "g", "h", "t", ",", " ", "U", "n", "i", "t", "s">>

Line_22_kg == <<"2", "0", "2", "2", "-", "0", "3", "-", "2", "2", ",", " ", "7", "0", ".", "0", "4", ",", " ", "k", "g">>

Line_22_lb == <<"2", "0", "2", "2", "-", "0", "3", "-", "2", "2", ",", " ", "7", "0", ".", "0", "4", ",", " ", "l", "b">>

Line_23_kg == <<"2", "0", "2", "2", "-", "0", "3", "-", "2", "3", ",", "7", "0", ".", "0", "4", ",", "k", "g">>

Line_bad_date == <<"2", "0", "2", "2", "-", "0", "2", "-", "3", "0", ",", " ", "7", "0", ".", "0", "4", ",", " ", "k", "g">>

RECURSIVE JoinLines(_)
JoinLines(lines) ==
    IF Len(lines) = 1 THEN lines[1]
    ELSE lines[1] \o <<"\n">> \o JoinLines(Tail(lines))

CsvTexts ==
    { JoinLines(<<CSV_HEADER, Line_22_lb, <<" ">>, Line_23_kg, <<>>>>),
      JoinLines(<<CSV_HEADER, Line_22_kg, Line_22_lb>>),
      JoinLines(<<CSV_HEADER, Line_23_kg, Line_bad_date>>),
      JoinLines(<<<<"D", "a", "t", "e", ",", "W", "e", "i", "g", "h", "t">>, Line_22_kg>>) }

CsvFiles ==
    [decodes : {TRUE}, text : CsvTexts] \cup [decodes : {FALSE}, text : {<<>>}]

\* Data lines that do not parse: two values, a weight that is no number, a
\* unit in capitals, a date that is day-month-year
Line_23_two_values == <<"2", "0", "2", "2", "-", "0", "3", "-", "2", "3", ",", " ", "7", "0", ".", "0", "4">>

Line_23_bad_weight == <<"2", "0", "2", "2", "-", "0", "3", "-", "2", "3", ",", " ", "a", "b", "c", ",", " ", "k", "g">>

Line_22_bad_units == <<"2", "0", "2", "2", "-", "0", "3", "-", "2", "2", ",", " ", "7", "0", ".", "0", "4", ",", " ", "K", "G">>

Line_bad_date_format == <<"2", "3", "-", "0", "3", "-", "2", "0", "2", "2", ",", " ", "7", "0", ".", "0", "4", ",", " ", "k", "g">>

\* A header with a wrong column name
CSV_HEADER_Unit == <<"D", "a", "t", "e", ",", " ", "W", "e", "i", "g", "h", "t", ",", " ", "U", "n", "i", "t">>

\* Files whose header is not the expected one: an empty first line, a wrong
\* column name before a good line, a wrong column name before a bad line
CsvTextsBadHeader ==
    { JoinLines(<<<<>>, CSV_HEADER, Line_22_kg>>),
      JoinLines(<<CSV_HEADER_Unit, Line_22_kg>>),
      JoinLines(<<CSV_HEADER_Unit, Line_bad_date>>) }

\* Files with a data line that does not parse, after good lines and blank
\* lines or before another bad line
CsvTextsBadLine ==
    { JoinLines(<<CSV_HEADER, Line_22_kg, <<>>, Line_23_two_values>>),
      JoinLines(<<CSV_HEADER, Line_22_lb, Line_23_bad_weight>>),
      JoinLines(<<CSV_HEADER, Line_22_bad_units, Line_23_kg>>),
      JoinLines(<<CSV_HEADER, <<" ">>, Line_22_lb, <<>>, Line_bad_date_format,
                  Line_23_bad_weight>>) }

AllCsvTexts == CsvTexts \cup CsvTextsBadHeader \cup CsvTextsBadLine

AllCsvFiles == [decodes : {TRUE}, text : AllCsvTexts]

\* Data lines with a weight of a thousand or more
Line_22_1000_lb == <<"2", "0", "2", "2", "-", "0", "3", "-", "2", "2", ",", " ", "1", "0", "0", "0", ",", " ", "l", "b">>

Line_23_1234_kg == <<"2", "0", "2", "2", "-", "0", "3", "-", "2", "3", ",", " ", "1", "2", "3", "4", ".", "5", "6", ",", " ", "k", "g">>

\* Well-formed files with such lines
CsvTextsLarge ==
    { JoinLines(<<CSV_HEADER, Line_22_1000_lb>>),
      JoinLines(<<CSV_HEADER, Line_23_1234_kg>>) }

\* create_entries_from_csv(user_id, csv) for the files above, computed once
ParsedCsv ==
    [user_id \in UserIds, csv \in AllCsvTexts \cup CsvTextsLarge |->
        create_entries_from_csv(user_id, csv)]

\* Service.add_entries_from_csv; csv_bytes.decodes says whether the bytes are
\* UTF-8, csv_bytes.text is the decoded text
add_entries_from_csv(user_id, csv_bytes) ==
    /\ UNCHANGED <<users, users_id_seq, now, tokens>>
    /\ IF ~csv_bytes.decodes
       THEN /\ last' = create_http_ex("add_entries_from_csv",
                                      "Unable to read string from CSV file", BAD_REQUEST)
            /\ UNCHANGED <<entries, entries_id_seq>>
       ELSE
         LET parsed == ParsedCsv[user_id, csv_bytes.text]
         IN  IF ~parsed.ok
             THEN /\ last' = WeightLogError("add_entries_from_csv", parsed.error)
                  /\ UNCHANGED <<entries, entries_id_seq>>
             ELSE
               LET saved == SaveEntries(parsed.value, 1, entries, entries_id_seq)
               IN  /\ saved.id_seq <= MaxEntryId + 1
                   /\ entries_id_seq' = saved.id_seq
                   /\ IF saved.failed
                      THEN /\ last' = create_http_ex("add_entries_from_csv",
                                          "Unable to save entry", INTERNAL_SERVER_ERROR)
                           /\ UNCHANGED entries
                      ELSE /\ entries' = saved.rows
                           /\ last' = Returned("add_entries_from_csv", <<>>)

----------------------------------------------------------------------------
(* Requests and transactions in progress *)

\* asyncio.Lock(): not locked, nobody waiting.  A waiter is the future of a
\* request; woken is TRUE once release has set its result.
Lock == [locked |-> FALSE, waiters |-> <<>>]

\* A request slot in which no get_entries_graph call is running
NoRequest == [pc |-> "idle", entries |-> 0]

\* A writer that has not begun its transaction.  writes are the rows it has
\* inserted or updated, replaced the rows as they were before its updates.
NoTransaction ==
    [status |-> "idle", op |-> "", todo |-> <<>>, snapshot |-> <<>>,
     writes |-> {}, replaced |-> {}, error |-> ""]

----------------------------------------------------------------------------
(* The deployment: the files wl-admin init writes (src/admin/__init__.py),  *)
(* the keys the backend loads from them (util.py) and the PostgreSQL server *)
(* the backend provisions (database.py)                                     *)

\* Characters a generated secret begins and ends with
\* The first and the last character of the passwords and token keys drawn
PasswordEnds == {<<"Z", "7">>, <<"7", "Z">>}

TokenEnds == {<<"0", "f">>, <<"f", "0">>}

\* A text of `length` characters that begins with `first`, ends with
\* `last_char` and has `filler` in between
SecretText(first, last_char, length, filler) ==
    <<first>> \o [i \in 1 .. (length - 2) |-> filler] \o <<last_char>>

\* generate_password(): pw_len alphanumeric characters
generate_password == {SecretText(ends[1], ends[2], PW_LEN, "x") : ends \in PasswordEnds}

\* secrets.token_hex(math.ceil(TOKEN_BIT_COUNT / 8)): two hexadecimal digits
\* for each byte
token_hex ==
    {SecretText(ends[1], ends[2], 2 * (TOKEN_BIT_COUNT \div 8), "c") : ends \in TokenEnds}

POSTGRES_PASSWORD == <<"P", "O", "S", "T", "G", "R", "E", "S", "_", "P", "A", "S", "S", "W", "O", "R", "D">>

DB_PASSWORD == <<"D", "B", "_", "P", "A", "S", "S", "W", "O", "R", "D">>

TOKEN_KEY_NAME == <<"T", "O", "K", "E", "N", "_", "K", "E", "Y">>

\* The file names of Admin.__init__ and of load_keys
CONFIG_FILE == "config/config.ini"

KEYS_DATABASE_FILE == "config/keys/keys-database.env"

KEYS_BACKEND_FILE == "config/keys/keys-backend.env"

FRONTEND_ENV_FILE == "frontend/.env"

REACT_APP_WL_HOMEPAGE == <<"R", "E", "A", "C", "T", "_", "A", "P", "P", "_", "W", "L", "_", "H", "O", "M", "E", "P", "A", "G", "E">>

\* write_env_var: the line NAME="value"
write_env_var(name, value) ==
    name \o <<"=", "\"">> \o value \o <<"\"", "\n">>

\* A loader that leaves the quotes where they are
remove_outer_quotes_never(key_value) == key_value

\* "Remove any outer quotes from value": the first of " and ' that the value
\* both starts and ends with is removed, when the value has more than one
\* character
remove_outer_quotes(key_value) ==
    IF /\ Len(key_value) > 1
       /\ \/ Head(key_value) = "\"" /\ key_value[Len(key_value)] = "\""
          \/ Head(key_value) = "'" /\ key_value[Len(key_value)] = "'"
    THEN SubSeq(key_value, 2, Len(key_value) - 1)
    ELSE key_value

\* keys[key_name] = key_value
keys_set(loaded, key_name, key_value) ==
    [n \in DOMAIN loaded \cup {key_name} |->
        IF n = key_name THEN key_value ELSE loaded[n]]

\* The loop of load_keys_from_file over lines[i ..]: the keys loaded, or the
\* keys loaded so far and the number of the line that stopped the loop
RECURSIVE LoadKeyLines(_, _, _)
LoadKeyLines(loaded, lines, i) ==
    IF i > Len(lines) THEN [ok |-> TRUE, keys |-> loaded, line_no |-> 0]
    ELSE
      LET line == strip(lines[i])
          parts == split(line, "=")
      IN  IF Len(line) = 0 THEN LoadKeyLines(loaded, lines, i + 1)
          ELSE IF Len(parts) # 2
          THEN [ok |-> FALSE, keys |-> loaded, line_no |-> i]
          ELSE LoadKeyLines(
                    keys_set(loaded, strip(parts[1]),
                             remove_outer_quotes(strip(parts[2]))),
                    lines, i + 1)

\* load_keys_from_file: the keys after it, whether it returned, and the
\* line it stopped at (0 when the file could not be read)
load_keys_from_file(loaded, file_name, file) ==
    IF file_name \notin DOMAIN file
    THEN [ok |-> FALSE, keys |-> loaded, line_no |-> 0, file_name |-> file_name]
    ELSE LET result == LoadKeyLines(loaded, split(file[file_name], "\n"), 1)
         IN  [ok |-> result.ok, keys |-> result.keys, line_no |-> result.line_no,
              file_name |-> file_name]

\* No key loaded
NoKeys == [n \in {} |-> <<>>]

\* No directory and no file of a deployment, no image and no container
NoFiles ==
    [config_dir |-> FALSE, keys_dir |-> FALSE, docker |-> FALSE,
     compose |-> FALSE, file |-> [n \in {} |-> <<>>]]

\* open(filename, "w") and write: the file has this text
file_write(file, filename, text) ==
    [n \in DOMAIN file \cup {filename} |-> IF n = filename THEN text ELSE file[n]]

\* The files after a do_init that generated these secrets
DeployedFiles(homepage, depl_env, postgres_password, db_password, token_key) ==
    [config_dir |-> TRUE, keys_dir |-> TRUE, docker |-> FALSE, compose |-> TRUE,
     file |->
        file_write(
          file_write(
            file_write(
              file_write([n \in {} |-> <<>>], FRONTEND_ENV_FILE,
                         write_env_var(REACT_APP_WL_HOMEPAGE, homepage)),
              KEYS_DATABASE_FILE,
              write_env_var(POSTGRES_PASSWORD, postgres_password)),
            KEYS_BACKEND_FILE,
            write_env_var(DB_PASSWORD, db_password)
                \o write_env_var(TOKEN_KEY_NAME, token_key)),
          CONFIG_FILE, depl_env)]

\* load_keys(): the backend file, then the database file
load_keys(loaded, file) ==
    LET backend == load_keys_from_file(loaded, KEYS_BACKEND_FILE, file)
    IN  IF ~backend.ok THEN backend
        ELSE load_keys_from_file(backend.keys, KEYS_DATABASE_FILE, file)

\* The row of table "schema"
SchemaRow ==
    [name |-> "Weight Log", major_ver |-> SCHEMA_VER_MAJOR,
     minor_ver |-> SCHEMA_VER_MINOR]

\* A server on which nothing of the application exists
FreshServer ==
    [database |-> FALSE, db_user |-> FALSE, tables |-> FALSE, schema |-> {}]

\* A server with the database, its user, the tables and the schema row
ProvisionedServer ==
    [database |-> TRUE, db_user |-> TRUE, tables |-> TRUE, schema |-> {SchemaRow}]

\* No administrative procedure is running
NoProcedure == [name |-> "", pc |-> ""]

\* A homepage that validators.url accepts
HOMEPAGE == <<"h", "t", "t", "p", "s", ":", "/", "/", "e", "x", "a", "m", "p", "l", "e", ".", "c", "o", "m", "/", "w", "l">>

\* The backend is running on a deployment made by do_init
InitDeployment ==
    /\ server = ProvisionedServer
    /\ proc = NoProcedure
    /\ files = DeployedFiles(HOMEPAGE, "prod", SecretText("Z", "7", PW_LEN, "x"),
                             SecretText("7", "Z", PW_LEN, "x"),
                             SecretText("0", "f", 2 * (TOKEN_BIT_COUNT \div 8), "c"))
    /\ keys = load_keys(NoKeys, files.file).keys

----------------------------------------------------------------------------
(* The entry store with its users *)

Init ==
    /\ users = {}
    /\ entries = {}
    /\ users_id_seq = IDENTITY_START
    /\ entries_id_seq = IDENTITY_START
    /\ now = 0
    /\ tokens = {}
    /\ last = NoOperation
    /\ plot_lock = Lock
    /\ graph = [r \in Requests |-> NoRequest]
    /\ txns = [w \in Writers |-> NoTransaction]
    /\ InitDeployment

\* The caller gets the outcome of its operation
Return ==
    /\ last # NoOperation
    /\ last' = NoOperation
    /\ UNCHANGED <<users, entries, users_id_seq, entries_id_seq, now, tokens>>
    /\ UNCHANGED <<plot_lock, graph, txns, deployment>>

Next ==
    \/ /\ last = NoOperation
       /\ UNCHANGED <<plot_lock, graph, txns, deployment>>
       /\ \E new_user \in NewUsers :
            add_user(new_user[1], new_user[2], new_user[3], new_user[4])
    \/ /\ last = NoOperation
       /\ UNCHANGED <<plot_lock, graph, txns, deployment>>
       /\ \E username \in Usernames : delete_user(username)
    \/ /\ last = NoOperation
       /\ UNCHANGED <<plot_lock, graph, txns, deployment>>
       /\ \E entry \in AddEntryArgs : add_entry(entry)
    \/ /\ last = NoOperation
       /\ UNCHANGED <<plot_lock, graph, txns, deployment>>
       /\ \E entry \in UpdateEntryArgs : update_entry(entry)
    \/ /\ last = NoOperation
       /\ UNCHANGED <<plot_lock, graph, txns, deployment>>
       /\ \E user_id \in UserIds, entry_date \in Dates :
            delete_entry(user_id, entry_date)
    \/ /\ last = NoOperation
       /\ UNCHANGED <<plot_lock, graph, txns, deployment>>
       /\ \E user_id \in UserIds : delete_all_entries(user_id)
    \/ /\ last = NoOperation
       /\ UNCHANGED <<plot_lock, graph, txns, deployment>>
       /\ \E user_id \in UserIds, csv_bytes \in CsvFiles :
            add_entries_from_csv(user_id, csv_bytes)
    \/ /\ last = NoOperation
       /\ UNCHANGED <<plot_lock, graph, txns, deployment>>
       /\ \E user \in get_users : Service_get_entries(user)
    \/ Return

Spec == Init /\ [][Next]_vars

----------------------------------------------------------------------------
(* Tokens: UserManager.create_access_token / get_user_from_token and the   *)
(* jose.jwt calls they make                                                 *)

\* self.token_key and a key that is not the service's
TOKEN_KEY == "the token key of the service"

OTHER_KEY == "a key of somebody else"

\* str(n) for n >= 0
RECURSIVE IntToStr(_)
IntToStr(n) ==
    LET d == <<"0", "1", "2", "3", "4", "5", "6", "7", "8", "9">>[(n % 10) + 1]
    IN  IF n < 10 THEN <<d>> ELSE Append(IntToStr(n \div 10), d)

\* int(text): surrounding whitespace and a sign are accepted
int(text) ==
    LET t == strip(text)
        signed == t # <<>> /\ Head(t) \in {"+", "-"}
        digits == IF signed THEN Tail(t) ELSE t
    IN  IF ~IsDigits(digits) THEN ParseError("ValueError", 0)
        ELSE IF signed /\ Head(t) = "-" THEN Parsed(0 - DigitsToInt(digits))
        ELSE Parsed(DigitsToInt(digits))

\* jwt.encode(data, key, algorithm="HS256"): the claims and their HMAC under
\* the key.  A claim that may be absent is a sequence of length 0 or 1.
jwt_encode(data, key) ==
    [wellformed |-> TRUE, claims |-> data, signature |-> [key |-> key, of |-> data]]

\* jwt.decode(token, key, algorithms=["HS256"]): the signature is verified,
\* then exp against the clock
jwt_decode(token, key) ==
    IF ~token.wellformed THEN [error |-> "JWTError", claims |-> token.claims]
    ELSE IF token.signature # [key |-> key, of |-> token.claims]
    THEN [error |-> "JWTError", claims |-> token.claims]
    ELSE IF token.claims.exp # <<>> /\ token.claims.exp[1] < now
    THEN [error |-> "ExpiredSignatureError", claims |-> token.claims]
    ELSE [error |-> "", claims |-> token.claims]

\* UserManager.create_credentials_error with the status left at its default
create_credentials_error_default_status(op) ==
    WeightLogError(op, "Could not validate credentials")

\* UserManager.create_credentials_error
create_credentials_error(op) ==
    WeightLogErrorWithStatus(op, "Could not validate credentials", UNAUTHORIZED)

\* create_http_ex_from_weight_log_error: same status, str(ex) as detail
create_http_ex_from_weight_log_error(outcome) ==
    IF outcome.ex = "WeightLogError" THEN [outcome EXCEPT !.ex = "HTTPException"]
    ELSE outcome

\* authenticate_user that accepts every password
authenticate_user_always(user, password) == TRUE

\* UserManager.authenticate_user
authenticate_user(user, password) == crypt_verify(password, user.password)

\* create_access_token whose expiry lies ACCESS_TOKEN_EXPIRE_HOURS back
token_expires_before(utcnow) == utcnow - ACCESS_TOKEN_EXPIRE_HOURS

\* create_access_token, "expires = ..."
token_expires(utcnow) == utcnow + ACCESS_TOKEN_EXPIRE_HOURS

\* UserManager.create_access_token: what it returns or raises
create_access_token(op, username, password) ==
    LET user == get_user_from_username(username)
    IN  IF user = <<>> THEN create_credentials_error(op)
        ELSE IF ~authenticate_user(user[1], password)
        THEN create_credentials_error(op)
        ELSE LET data == [sub |-> <<IntToStr(user[1].id)>>,
                          exp |-> <<token_expires(now)>>]
             IN  Returned(op, <<jwt_encode(data, TOKEN_KEY)>>)

\* UserManager.get_user_from_token: what it returns or raises
UserManager_get_user_from_token(op, token) ==
    LET decoded == jwt_decode(token, TOKEN_KEY)
        user_id_str == decoded.claims.sub
        user_id == int(user_id_str[1])
        user == get_user_from_id(user_id.value)
    IN  IF decoded.error = "ExpiredSignatureError"
        THEN Logged(create_credentials_error(op), "Token has expired")
        ELSE IF decoded.error = "JWTError"
        THEN Logged(create_credentials_error(op), "Failed to decode token")
        ELSE IF user_id_str = <<>>
        THEN Logged(create_credentials_error(op), "Key sub not found in token")
        ELSE IF ~user_id.ok
        THEN Logged(create_credentials_error(op), "Failed to parse user id")
        ELSE IF user = <<>>
        THEN Logged(create_credentials_error(op), "User not found for token")
        ELSE Returned(op, user)

\* Service.login; the client keeps the token
login(username, password) ==
    LET outcome == create_http_ex_from_weight_log_error(
                        create_access_token("login", username, password))
    IN  /\ UNCHANGED <<users, entries, users_id_seq, entries_id_seq, now>>
        /\ last' = outcome
        /\ IF outcome.ex = "none"
           THEN /\ outcome.ret[1] \in tokens \/ Cardinality(tokens) < MaxTokens
                /\ tokens' = tokens \cup {outcome.ret[1]}
           ELSE UNCHANGED tokens

\* Service.get_user_from_token
get_user_from_token(token) ==
    /\ UNCHANGED <<users, entries, users_id_seq, entries_id_seq, now, tokens>>
    /\ last' = create_http_ex_from_weight_log_error(
                    UserManager_get_user_from_token("get_user_from_token", token))

\* Time passes
Instants == {0, 12, 24, 36}

Tick ==
    /\ \E later \in Instants : later > now /\ now' = later
    /\ UNCHANGED <<users, entries, users_id_seq, entries_id_seq, tokens, last>>

\* What login is called with
LoginUsernames == {"Betty", "Wilma", "Nobody"}

LoginPasswords == {"boop de doop", "not the password"}

\* Tokens nobody was issued: not a JWT at all, signed with another key,
\* and signed claims without a subject, with a subject that is no number
\* and with the id of no user
ClaimsPresented ==
    { [sub |-> <<IntToStr(IDENTITY_START)>>, exp |-> <<ACCESS_TOKEN_EXPIRE_HOURS>>],
      [sub |-> <<>>, exp |-> <<ACCESS_TOKEN_EXPIRE_HOURS>>],
      [sub |-> <<<<"B", "e", "t", "t", "y">>>>, exp |-> <<ACCESS_TOKEN_EXPIRE_HOURS>>] }

TokensPresented ==
    { [jwt_encode(c, OTHER_KEY) EXCEPT !.wellformed = FALSE] : c \in ClaimsPresented }
    \cup { jwt_encode(c, OTHER_KEY) : c \in ClaimsPresented }
    \cup { jwt_encode(c, TOKEN_KEY) : c \in ClaimsPresented }

NextAuth ==
    \/ /\ last = NoOperation
       /\ UNCHANGED <<plot_lock, graph, txns, deployment>>
       /\ \E new_user \in NewUsers :
            add_user(new_user[1], new_user[2], new_user[3], new_user[4])
    \/ /\ last = NoOperation
       /\ UNCHANGED <<plot_lock, graph, txns, deployment>>
       /\ \E username \in Usernames : delete_user(username)
    \/ /\ last = NoOperation
       /\ UNCHANGED <<plot_lock, graph, txns, deployment>>
       /\ \E username \in LoginUsernames, password \in LoginPasswords :
            login(username, password)
    \/ /\ last = NoOperation
       /\ UNCHANGED <<plot_lock, graph, txns, deployment>>
       /\ \E token \in tokens \cup TokensPresented : get_user_from_token(token)
    \/ /\ last = NoOperation
       /\ UNCHANGED <<plot_lock, graph, txns, deployment>>
       /\ Tick
    \/ Return

SpecAuth == Init /\ [][NextAuth]_vars

----------------------------------------------------------------------------
(* Users: POST /user/, PUT /user/ and PUT /password/ *)

\* The User objects POST /user/ is sent: the values of NewUsers as the
\* fields of a User; id and units_name are whatever the client put there
SubmittedUsers ==
    { [id |-> 0, username |-> new_user[1], metric |-> new_user[2],
       units_name |-> "", goal_weight |-> new_user[3], password |-> new_user[4]] :
      new_user \in NewUsers }

\* Python binding the positional arguments of a call to the four parameters
\* (besides self) of UserManager.add_user: TRUE when the call raises
\* TypeError before the body runs
add_user_TypeError(args) == Len(args) # 4

\* Service.add_user: `self.user_manager.add_user(new_user)`.  TypeError is
\* no WeightLogError, so it is not translated; the server answers 500.
Service_add_user(new_user) ==
    LET args == <<new_user>>
    IN  IF add_user_TypeError(args)
        THEN /\ last' = Outcome("Service_add_user", INTERNAL_SERVER_ERROR,
                                "missing 3 required positional arguments",
                                "TypeError", <<>>)
             /\ UNCHANGED <<users, entries, users_id_seq, entries_id_seq, now, tokens>>
        ELSE add_user(args[1], args[2], args[3], args[4])

\* The User objects PUT /user/ is sent; goal weight 70.25
UpdatedUsers ==
    { [id |-> 0, username |-> username, metric |-> TRUE, units_name |-> "",
       goal_weight |-> 7025, password |-> ""] :
      username \in {"", "Betty", "Wilma", "a_username_that_is_33_chars_long_"} }

\* update_user that stores the goal weight as submitted
update_goal_weight_as_submitted(goal_weight) == goal_weight

\* update_user, "updated_user.goal_weight = round(updated_user.goal_weight, 1)"
update_goal_weight(goal_weight) == round_1(goal_weight)

\* UserManager.update_user.  A username longer than the column is refused by
\* the database at commit (DataError, a SQLAlchemyError).
update_user(authenticated_user_id, updated_user) ==
    LET found == UserRowsById(authenticated_user_id)
        row == CHOOSE u \in found : TRUE
        new_username == updated_user.username
        renamed == Len(new_username) > 0 /\ new_username # row.username
        goal_weight == update_goal_weight(updated_user.goal_weight)
        new_row == [row EXCEPT !.username = IF renamed THEN new_username ELSE @,
                               !.metric = updated_user.metric,
                               !.goal_weight = goal_weight]
        returned == [updated_user EXCEPT
                        !.units_name = determine_units_name(updated_user.metric),
                        !.goal_weight = goal_weight]
    IN  /\ UNCHANGED <<entries, users_id_seq, entries_id_seq, now, tokens>>
        /\ IF found = {}
           THEN /\ last' = WeightLogError("update_user", "not found")
                /\ UNCHANGED users
           ELSE IF renamed /\ get_user_from_username(new_username) # <<>>
           THEN /\ last' = WeightLogErrorWithStatus("update_user", "already in use",
                                                    BAD_REQUEST)
                /\ UNCHANGED users
           ELSE IF renamed /\ Len(new_username) > USERNAME_MAX_LEN
           THEN /\ last' = WeightLogError("update_user", "Unable to update user")
                /\ UNCHANGED users
           ELSE /\ users' = (users \ {row}) \cup {new_row}
                /\ last' = Returned("update_user", <<returned>>)

\* The passwords PUT /password/ and POST /token are sent
PasswordsPresented == {"boop de doop", "not the password", ""}

\* The User objects Service.change_password is handed: a stored user as
\* get_user_from_token resolves it, or a User resolved before the stored row
\* changed
ChangePasswordUsers ==
    get_users \cup
    { create_user_from_row(UserRow(id, "Betty", FALSE, 6800,
                                   crypt_hash("boop de doop"))) : id \in UserIds }

\* UserManager.change_password: what it raises or returns
UserManager_change_password(op, user_id, new_password) ==
    IF check_and_hash_password(new_password) = <<>>
    THEN WeightLogError(op, "Password is empty")
    ELSE IF UserRowsById(user_id) = {}
    THEN WeightLogError(op, "not found")
    ELSE Returned(op, <<>>)

\* Service.change_password
change_password(user, current_password, new_password) ==
    LET outcome == UserManager_change_password("change_password", user.id,
                                               new_password)
        row == CHOOSE u \in UserRowsById(user.id) : TRUE
        hashed == check_and_hash_password(new_password)
    IN  /\ UNCHANGED <<entries, users_id_seq, entries_id_seq, now, tokens>>
        /\ IF ~authenticate_user(user, current_password)
           THEN /\ last' = create_http_ex("change_password",
                                          "Current password is incorrect", BAD_REQUEST)
                /\ UNCHANGED users
           ELSE /\ last' = create_http_ex_from_weight_log_error(outcome)
                /\ IF outcome.ex = "none"
                   THEN users' = (users \ {row}) \cup
                                    {[row EXCEPT !.password = hashed[1]]}
                   ELSE UNCHANGED users

NextUsers ==
    \/ /\ last = NoOperation
       /\ UNCHANGED <<plot_lock, graph, txns, deployment>>
       /\ \E new_user \in NewUsers :
            add_user(new_user[1], new_user[2], new_user[3], new_user[4])
    \/ /\ last = NoOperation
       /\ UNCHANGED <<plot_lock, graph, txns, deployment>>
       /\ \E new_user \in SubmittedUsers : Service_add_user(new_user)
    \/ /\ last = NoOperation
       /\ UNCHANGED <<plot_lock, graph, txns, deployment>>
       /\ \E user_id \in UserIds, updated_user \in UpdatedUsers :
            update_user(user_id, updated_user)
    \/ /\ last = NoOperation
       /\ UNCHANGED <<plot_lock, graph, txns, deployment>>
       /\ \E user \in ChangePasswordUsers,
             current_password \in PasswordsPresented,
             new_password \in PasswordsPresented :
            change_password(user, current_password, new_password)
    \/ /\ last = NoOperation
       /\ UNCHANGED <<plot_lock, graph, txns, deployment>>
       /\ \E username \in Usernames : delete_user(username)
    \/ Return

SpecUsers == Init /\ [][NextUsers]_vars

----------------------------------------------------------------------------
(* GET /entries/graph: Service.get_entries_graph, a coroutine per request.  *)
(* The event loop runs a coroutine up to its next await; here every         *)
(* statement group below is a step of its own, so the requests interleave   *)
(* at least as freely as the event loop lets them.                          *)

\* The statements between `async with self.plot_lock:` and its end: the
\* request is about to run pyplot.figure, the plot calls, pyplot.savefig
DrawAndEncode == {"figure", "plot", "savefig"}

\* acquire that looks at neither the lock nor its waiters
lock_is_free_always(lock) == TRUE

\* asyncio.Lock.acquire, the test for taking the lock without waiting
lock_is_free(lock) == ~lock.locked /\ lock.waiters = <<>>

\* asyncio.Lock.release: unlocked, and the first waiter not yet woken is woken
lock_release(lock) ==
    LET pending == {i \in 1 .. Len(lock.waiters) : ~lock.waiters[i].woken}
        first == CHOOSE i \in pending : \A j \in pending : i <= j
    IN  [locked |-> FALSE,
         waiters |-> IF pending = {} THEN lock.waiters
                     ELSE [lock.waiters EXCEPT ![first].woken = TRUE]]

\* get_entries_graph up to `if len(entries) > 0`
get_entries_graph_prepare(r, user) ==
    /\ graph[r].pc = "idle"
    /\ LET n == Len(get_entries(user))
       IN  graph' = [graph EXCEPT ![r] =
                        [pc |-> IF n > 0 THEN "acquire" ELSE "return", entries |-> n]]
    /\ UNCHANGED plot_lock

\* `async with self.plot_lock`, asyncio.Lock.acquire up to its await
lock_acquire(r) ==
    /\ graph[r].pc = "acquire"
    /\ IF lock_is_free(plot_lock)
       THEN /\ plot_lock' = [plot_lock EXCEPT !.locked = TRUE]
            /\ graph' = [graph EXCEPT ![r].pc = "figure"]
       ELSE /\ plot_lock' = [plot_lock EXCEPT !.waiters =
                                Append(@, [request |-> r, woken |-> FALSE])]
            /\ graph' = [graph EXCEPT ![r].pc = "waiting"]

\* asyncio.Lock.acquire after its await: the future was given its result
lock_acquire_resume(r) ==
    /\ graph[r].pc = "waiting"
    /\ \E i \in 1 .. Len(plot_lock.waiters) :
            /\ plot_lock.waiters[i].request = r
            /\ plot_lock.waiters[i].woken
            /\ plot_lock' =
                    [locked |-> TRUE,
                     waiters |-> SubSeq(plot_lock.waiters, 1, i - 1) \o
                                 SubSeq(plot_lock.waiters, i + 1, Len(plot_lock.waiters))]
    /\ graph' = [graph EXCEPT ![r].pc = "figure"]

\* pyplot.figure(...)
pyplot_figure(r) ==
    /\ graph[r].pc = "figure"
    /\ graph' = [graph EXCEPT ![r].pc = "plot"]
    /\ UNCHANGED plot_lock

\* pyplot.plot ... pyplot.tight_layout()
pyplot_plot(r) ==
    /\ graph[r].pc = "plot"
    /\ graph' = [graph EXCEPT ![r].pc = "savefig"]
    /\ UNCHANGED plot_lock

\* pyplot.savefig, buffer.seek and the end of the `async with` block
pyplot_savefig(r) ==
    /\ graph[r].pc = "savefig"
    /\ graph' = [graph EXCEPT ![r].pc = "return"]
    /\ plot_lock' = lock_release(plot_lock)

\* A pyplot call raises: the `async with` block is left by the exception
pyplot_raises(r) ==
    /\ graph[r].pc \in DrawAndEncode
    /\ graph' = [graph EXCEPT ![r].pc = "raise"]
    /\ plot_lock' = lock_release(plot_lock)

\* `return buffer`, or the exception leaves the coroutine
get_entries_graph_return(r) ==
    /\ graph[r].pc \in {"return", "raise"}
    /\ graph' = [graph EXCEPT ![r] = NoRequest]
    /\ UNCHANGED plot_lock

\* A user with no entry or with one
InitGraph ==
    /\ users = {UserRow(IDENTITY_START, "Betty", FALSE, 6800,
                        crypt_hash("boop de doop"))}
    /\ entries \in { {},
                     {create_row_from_entry(
                        [id |-> 0, user_id |-> IDENTITY_START,
                         date |-> Date(2022, 3, 22), weight |-> 7000,
                         is_metric |-> FALSE], IDENTITY_START)} }
    /\ users_id_seq = IDENTITY_START + 1
    /\ entries_id_seq = IDENTITY_START + Cardinality(entries)
    /\ now = 0
    /\ tokens = {}
    /\ last = NoOperation
    /\ plot_lock = Lock
    /\ graph = [r \in Requests |-> NoRequest]
    /\ txns = [w \in Writers |-> NoTransaction]
    /\ InitDeployment

NextGraph ==
    \/ /\ \E r \in Requests, user \in get_users : get_entries_graph_prepare(r, user)
       /\ UNCHANGED <<users, entries, users_id_seq, entries_id_seq, now, tokens,
                      last, txns, deployment>>
    \/ /\ \E r \in Requests : lock_acquire(r)
       /\ UNCHANGED <<users, entries, users_id_seq, entries_id_seq, now, tokens,
                      last, txns, deployment>>
    \/ /\ \E r \in Requests : lock_acquire_resume(r)
       /\ UNCHANGED <<users, entries, users_id_seq, entries_id_seq, now, tokens,
                      last, txns, deployment>>
    \/ /\ \E r \in Requests : pyplot_figure(r)
       /\ UNCHANGED <<users, entries, users_id_seq, entries_id_seq, now, tokens,
                      last, txns, deployment>>
    \/ /\ \E r \in Requests : pyplot_plot(r)
       /\ UNCHANGED <<users, entries, users_id_seq, entries_id_seq, now, tokens,
                      last, txns, deployment>>
    \/ /\ \E r \in Requests : pyplot_savefig(r)
       /\ UNCHANGED <<users, entries, users_id_seq, entries_id_seq, now, tokens,
                      last, txns, deployment>>
    \/ /\ \E r \in Requests : pyplot_raises(r)
       /\ UNCHANGED <<users, entries, users_id_seq, entries_id_seq, now, tokens,
                      last, txns, deployment>>
    \/ /\ \E r \in Requests : get_entries_graph_return(r)
       /\ UNCHANGED <<users, entries, users_id_seq, entries_id_seq, now, tokens,
                      last, txns, deployment>>

SpecGraph == InitGraph /\ [][NextGraph]_vars

----------------------------------------------------------------------------
(* Concurrent writers.  Each writer runs one of add_entry, update_entry and *)
(* add_entries_from_csv in its own `with self.database.Session.begin()`     *)
(* transaction against one PostgreSQL database at REPEATABLE READ; the      *)
(* statements of the transactions interleave.  A transaction reads from the *)
(* snapshot taken at its first statement and from its own writes; the       *)
(* unique index uc1 and the row locks look at what is committed and at the  *)
(* uncommitted writes of the other transactions.                            *)

\* What the writers run: the rounded entry of add_entry, the entry of
\* update_entry for the row with the first id, the parsed entries of a CSV
\* file that parses
WriterJobs ==
    { [op |-> "add_entry",
       todo |-> <<[id |-> 0, user_id |-> IDENTITY_START, date |-> date,
                   weight |-> round_1(weight), is_metric |-> TRUE]>>] :
      date \in Dates, weight \in Weights }
    \cup
    { [op |-> "update_entry",
       todo |-> <<[id |-> IDENTITY_START, user_id |-> IDENTITY_START, date |-> date,
                   weight |-> weight, is_metric |-> TRUE]>>] :
      date \in Dates, weight \in Weights }
    \cup
    { [op |-> "add_entries_from_csv",
       todo |-> ParsedCsv[IDENTITY_START, csv].value] :
      csv \in {JoinLines(<<CSV_HEADER, Line_22_lb, <<" ">>, Line_23_kg, <<>>>>)} }

\* uc1 is about (user_id, date)
SameKey(r1, r2) == r1.user_id = r2.user_id /\ r1.date = r2.date

\* The rows a statement of the transaction sees: its snapshot, with its own
\* writes in place of the rows they replace
txn_visible(snapshot, writes) ==
    {r \in snapshot : \A x \in writes : x.id # r.id} \cup writes

\* A database in which a write never waits for another transaction
txn_waits_never(w, row) == FALSE

\* The INSERT or UPDATE of `row` has to wait: another open transaction has
\* written this row, a row of the same (user_id, date), or a row that is
\* committed with that (user_id, date)
txn_waits(w, row) ==
    \E w2 \in Writers \ {w} :
        /\ txns[w2].status = "active"
        /\ \E x \in txns[w2].writes :
                \/ x.id = row.id
                \/ SameKey(x, row)
                \/ \E c \in entries : c.id = x.id /\ SameKey(c, row)

\* The UPDATE of the row with this id fails at REPEATABLE READ: the row was
\* changed by a transaction that committed after the snapshot
txn_serialization_failure(snapshot, writes, id) ==
    /\ \A x \in writes : x.id # id
    /\ {r \in snapshot : r.id = id} # {r \in entries : r.id = id}

\* What the next statement of an open transaction is: the row it inserts or
\* updates, or that there is nothing to write
txn_next_statement(t, snapshot) ==
    LET entry == Head(t.todo)
        visible == txn_visible(snapshot, t.writes)
        by_key == query_for_entry_by_user_and_date(visible, entry.user_id, entry.date)
        by_id == {r \in visible : r.id = entry.id}
    IN  IF t.op = "add_entry"
        THEN [kind |-> "insert", row |-> create_row_from_entry(entry, entries_id_seq)]
        ELSE IF t.op = "add_entries_from_csv"
        THEN IF by_key = {}
             THEN [kind |-> "insert",
                   row |-> create_row_from_entry(entry, entries_id_seq)]
             ELSE LET row == CHOOSE r \in by_key : TRUE
                  IN  IF csv_row_differs(row, entry)
                      THEN [kind |-> "update",
                            row |-> [row EXCEPT !.weight = entry.weight,
                                                !.metric = entry.is_metric]]
                      ELSE [kind |-> "skip", row |-> row]
        ELSE IF by_id = {}
             THEN [kind |-> "not found", row |-> entry]
             ELSE LET row == CHOOSE r \in by_id : TRUE
                  IN  IF update_row(row, entry) = row
                      THEN [kind |-> "skip", row |-> row]
                      ELSE [kind |-> "update", row |-> update_row(row, entry)]

\* A database that commits what a transaction wrote before it failed
txn_rollback_keeps_writes(stored, writes) == txn_visible(stored, writes)

\* The exception leaves the `with` block: ROLLBACK, the stored rows are
\* what they were
txn_rollback(stored, writes) == stored

\* The message of the HTTPException the operation raises for a failure of
\* the database
txn_error(op, integrity) ==
    IF op = "add_entries_from_csv" THEN "Unable to save entry"
    ELSE IF integrity THEN "already exists"
    ELSE "Unable to add entry"

\* `with self.database.Session.begin() as session:`
txn_begin(w, job) ==
    /\ txns[w].status = "idle"
    /\ txns' = [txns EXCEPT ![w] =
                    [status |-> "active", op |-> job.op, todo |-> job.todo,
                     snapshot |-> <<>>, writes |-> {}, replaced |-> {},
                     error |-> ""]]
    /\ UNCHANGED <<entries, entries_id_seq>>

\* The next query and flush of the transaction.  A failure rolls the
\* transaction back.
txn_statement(w) ==
    LET t == txns[w]
        snapshot == IF t.snapshot = <<>> THEN entries ELSE t.snapshot[1]
        next == txn_next_statement(t, snapshot)
        latest == txn_visible(entries, t.writes)
        failed(error) == [t EXCEPT !.status = "failed", !.snapshot = <<>>,
                                   !.writes = {}, !.replaced = {},
                                   !.error = error]
        written == [t EXCEPT !.todo = Tail(@), !.snapshot = <<snapshot>>,
                             !.writes = {x \in @ : x.id # next.row.id}
                                            \cup {next.row},
                             !.replaced = @ \cup
                                            {c \in entries : c.id = next.row.id}]
    IN  /\ t.status = "active"
        /\ t.todo # <<>>
        /\ IF next.kind = "not found"
           THEN /\ txns' = [txns EXCEPT ![w] = failed("not found")]
                /\ UNCHANGED entries_id_seq
           ELSE IF next.kind = "skip"
           THEN /\ txns' = [txns EXCEPT ![w] =
                                [t EXCEPT !.todo = Tail(@), !.snapshot = <<snapshot>>]]
                /\ UNCHANGED entries_id_seq
           ELSE /\ ~txn_waits(w, next.row)
                /\ entries_id_seq' =
                        IF next.kind = "insert" THEN entries_id_seq + 1
                        ELSE entries_id_seq
                /\ IF /\ next.kind = "update"
                      /\ txn_serialization_failure(snapshot, t.writes, next.row.id)
                   THEN txns' = [txns EXCEPT ![w] = failed(txn_error(t.op, FALSE))]
                   ELSE IF EntryIntegrityError(latest, next.row)
                   THEN txns' = [txns EXCEPT ![w] = failed(txn_error(t.op, TRUE))]
                   ELSE txns' = [txns EXCEPT ![w] = written]
        /\ entries' = IF txns'[w].status = "failed"
                      THEN txn_rollback(entries, t.writes)
                      ELSE entries

\* The end of the `with` block: COMMIT
txn_commit(w) ==
    LET t == txns[w]
    IN  /\ t.status = "active"
        /\ t.todo = <<>>
        /\ entries' = txn_visible(entries, t.writes)
        /\ txns' = [txns EXCEPT ![w].status = "committed", ![w].snapshot = <<>>]
        /\ UNCHANGED entries_id_seq

\* A user with no entry or with one
InitWriters ==
    /\ users = {UserRow(IDENTITY_START, "Betty", FALSE, 6800,
                        crypt_hash("boop de doop"))}
    /\ entries \in { {},
                     {create_row_from_entry(
                        [id |-> 0, user_id |-> IDENTITY_START,
                         date |-> Date(2022, 3, 22), weight |-> 7000,
                         is_metric |-> TRUE], IDENTITY_START)} }
    /\ users_id_seq = IDENTITY_START + 1
    /\ entries_id_seq = IDENTITY_START + Cardinality(entries)
    /\ now = 0
    /\ tokens = {}
    /\ last = NoOperation
    /\ plot_lock = Lock
    /\ graph = [r \in Requests |-> NoRequest]
    /\ txns = [w \in Writers |-> NoTransaction]
    /\ InitDeployment

NextWriters ==
    \/ /\ \E w \in Writers, job \in WriterJobs : txn_begin(w, job)
       /\ UNCHANGED <<users, users_id_seq, now, tokens, last, plot_lock, graph,
                    deployment>>
    \/ /\ \E w \in Writers : txn_statement(w)
       /\ UNCHANGED <<users, users_id_seq, now, tokens, last, plot_lock, graph,
                    deployment>>
    \/ /\ \E w \in Writers : txn_commit(w)
       /\ UNCHANGED <<users, users_id_seq, now, tokens, last, plot_lock, graph,
                    deployment>>

SpecWriters == InitWriters /\ [][NextWriters]_vars

----------------------------------------------------------------------------
(* Imports of CSV files, well-formed and not, by a user with no entry or   *)
(* with one                                                                 *)

InitCsv == InitWriters

NextCsv ==
    \/ /\ last = NoOperation
       /\ UNCHANGED <<plot_lock, graph, txns, deployment>>
       /\ \E user_id \in UserIds, csv_bytes \in AllCsvFiles \cup CsvFiles :
            add_entries_from_csv(user_id, csv_bytes)
    \/ /\ last = NoOperation
       /\ UNCHANGED <<plot_lock, graph, txns, deployment>>
       /\ \E user_id \in UserIds, entry_date \in Dates :
            delete_entry(user_id, entry_date)
    \/ /\ last = NoOperation
       /\ UNCHANGED <<plot_lock, graph, txns, deployment>>
       /\ \E entry \in AddEntryArgs : add_entry(entry)
    \/ Return

SpecCsv == InitCsv /\ [][NextCsv]_vars

----------------------------------------------------------------------------
(* Export: WeightLogEntry.format_as_csv and Service.get_entries_csv, by    *)
(* users who import into an empty store                                     *)

\* Digits with a zero in front until there are `width` of them
RECURSIVE ZeroPad(_, _)
ZeroPad(digits, width) ==
    IF Len(digits) >= width THEN digits ELSE ZeroPad(<<"0">> \o digits, width)

\* str(date): YYYY-MM-DD
date_str(date) ==
    LET d == (date % 31) + 1
        m == ((date \div 31) % 12) + 1
        y == date \div (31 * 12)
    IN  ZeroPad(IntToStr(y), 4) \o <<"-">> \o ZeroPad(IntToStr(m), 2)
            \o <<"-">> \o ZeroPad(IntToStr(d), 2)

\* The `,` of a format specification: a comma before every group of three
\* digits
RECURSIVE ThousandsSeparated(_)
ThousandsSeparated(digits) ==
    IF Len(digits) <= 3 THEN digits
    ELSE ThousandsSeparated(SubSeq(digits, 1, Len(digits) - 3))
            \o <<",">> \o SubSeq(digits, Len(digits) - 2, Len(digits))

\* The rounding of `.0f` on a weight in hundredths: to the nearest whole,
\* ties to even
round_0(w) ==
    LET q == w \div 100
        r == w % 100
    IN  IF r < 50 THEN q * 100
        ELSE IF r > 50 THEN (q + 1) * 100
        ELSE IF q % 2 = 0 THEN q * 100 ELSE (q + 1) * 100

\* f"{self.weight:,.1f}" if self.is_metric else f"{self.weight:,.0f}"
weight_formatted(weight, is_metric) ==
    IF is_metric
    THEN LET tenths == round_1(weight) \div 10
         IN  ThousandsSeparated(IntToStr(tenths \div 10)) \o <<".">>
                \o IntToStr(tenths % 10)
    ELSE ThousandsSeparated(IntToStr(round_0(weight) \div 100))

\* WeightLogEntry.format_as_csv
format_as_csv(entry) ==
    date_str(entry.date) \o <<",", " ">>
        \o weight_formatted(entry.weight, entry.is_metric) \o <<",", " ">>
        \o (IF entry.is_metric THEN KG_STR ELSE LB_STR)

\* newline.join(lines)
RECURSIVE newline_join(_)
newline_join(lines) ==
    IF lines = <<>> THEN <<>>
    ELSE IF Len(lines) = 1 THEN lines[1]
    ELSE lines[1] \o <<"\n">> \o newline_join(Tail(lines))

\* Service.get_entries_csv; create_csv_header() is CSV_HEADER
get_entries_csv(user) ==
    LET got == get_entries(user)
        entries_csv == newline_join([i \in 1 .. Len(got) |-> format_as_csv(got[i])])
    IN  CSV_HEADER \o <<"\n">> \o entries_csv

\* Service.get_entries_csv as a request
Service_get_entries_csv(user) ==
    /\ UNCHANGED <<users, entries, users_id_seq, entries_id_seq, now, tokens>>
    /\ last' = Returned("get_entries_csv", get_entries_csv(user))

\* The files imported: the well-formed ones
CsvFilesExport ==
    [decodes : {TRUE},
     text : {csv \in CsvTexts \cup CsvTextsLarge :
                ParsedCsv[IDENTITY_START, csv].ok}]

\* An imperial user and a metric user, no entry
InitExport ==
    /\ users = {UserRow(IDENTITY_START, "Betty", FALSE, 6800,
                        crypt_hash("boop de doop")),
                UserRow(IDENTITY_START + 1, "Wilma", TRUE, 7020,
                        crypt_hash("boop de doop"))}
    /\ entries = {}
    /\ users_id_seq = IDENTITY_START + 2
    /\ entries_id_seq = IDENTITY_START
    /\ now = 0
    /\ tokens = {}
    /\ last = NoOperation
    /\ plot_lock = Lock
    /\ graph = [r \in Requests |-> NoRequest]
    /\ txns = [w \in Writers |-> NoTransaction]
    /\ InitDeployment

NextExport ==
    \/ /\ last = NoOperation
       /\ UNCHANGED <<plot_lock, graph, txns, deployment>>
       /\ \E user_id \in UserIds, csv_bytes \in CsvFilesExport :
            add_entries_from_csv(user_id, csv_bytes)
    \/ /\ last = NoOperation
       /\ UNCHANGED <<plot_lock, graph, txns, deployment>>
       /\ \E user \in get_users : Service_get_entries_csv(user)
    \/ /\ last = NoOperation
       /\ UNCHANGED <<plot_lock, graph, txns, deployment>>
       /\ \E user_id \in UserIds : delete_all_entries(user_id)
    \/ Return

SpecExport == InitExport /\ [][NextExport]_vars

----------------------------------------------------------------------------
(* backend.py: the routes that change entries, called with the user that   *)
(* get_user_from_token made from the token of the request                  *)

\* POST /entry/
backend_add_entry(user, entry) == add_entry([entry EXCEPT !.user_id = user.id])

\* PUT /entry/
backend_update_entry(user, entry) ==
    update_entry([entry EXCEPT !.user_id = user.id])

\* DELETE /entry/{entry_date}
backend_delete_entry(user, entry_date) == delete_entry(user.id, entry_date)

\* DELETE /entries/
backend_delete_all_entries(user) == delete_all_entries(user.id)

\* POST /entries/csv
backend_add_entries_from_csv(user, file) == add_entries_from_csv(user.id, file)

\* A request of `user` that changes entries is answered
EntryRequest(user) ==
    /\ last = NoOperation
    /\ \/ \E entry \in AddEntryArgs : backend_add_entry(user, entry)
       \/ \E entry \in EntryArgs : backend_update_entry(user, entry)
       \/ \E entry_date \in Dates : backend_delete_entry(user, entry_date)
       \/ backend_delete_all_entries(user)
       \/ \E file \in CsvFiles : backend_add_entries_from_csv(user, file)

NextOwner ==
    \/ /\ last = NoOperation
       /\ UNCHANGED <<plot_lock, graph, txns, deployment>>
       /\ \E user \in get_users, entry \in AddEntryArgs : backend_add_entry(user, entry)
    \/ /\ last = NoOperation
       /\ UNCHANGED <<plot_lock, graph, txns, deployment>>
       /\ \E user \in get_users, entry \in EntryArgs : backend_update_entry(user, entry)
    \/ /\ last = NoOperation
       /\ UNCHANGED <<plot_lock, graph, txns, deployment>>
       /\ \E user \in get_users, entry_date \in Dates :
            backend_delete_entry(user, entry_date)
    \/ /\ last = NoOperation
       /\ UNCHANGED <<plot_lock, graph, txns, deployment>>
       /\ \E user \in get_users : backend_delete_all_entries(user)
    \/ /\ last = NoOperation
       /\ UNCHANGED <<plot_lock, graph, txns, deployment>>
       /\ \E user \in get_users, file \in CsvFiles :
            backend_add_entries_from_csv(user, file)
    \/ Return

SpecOwner == InitExport /\ [][NextOwner]_vars

----------------------------------------------------------------------------
(* Starts of the backend: Database.__init__ and create_database, one       *)
(* statement of SQL a step                                                  *)

\* A start that creates the tables and the schema row every time
needs_provisioning_always(db_exists) == TRUE

\* `if not db_exists:` of Database.__init__
needs_provisioning(db_exists) == ~db_exists

\* No process of the backend is starting
NotStarting == proc.pc \in {"", "running", "failed", "stopped"}

\* The start raised WeightLogError
startup_failed(error) == [proc EXCEPT !.pc = "failed", !.error = error]

\* Service() is called: a process of the backend starts
startup_begin ==
    /\ NotStarting
    /\ proc' = [name |-> "startup", pc |-> "select", db_exists |-> FALSE,
                error |-> ""]
    /\ UNCHANGED server

\* create_database: SELECT 1 AS result FROM pg_database WHERE datname = ...
create_database_select ==
    /\ proc.pc = "select"
    /\ proc' = [proc EXCEPT !.db_exists = server.database,
                            !.pc = IF server.database THEN "connect"
                                   ELSE "create database"]
    /\ UNCHANGED server

\* create_database: CREATE DATABASE, in autocommit mode
create_database_create ==
    /\ proc.pc = "create database"
    /\ IF server.database
       THEN /\ proc' = startup_failed("Unable to create")
            /\ UNCHANGED server
       ELSE /\ server' = [server EXCEPT !.database = TRUE]
            /\ proc' = [proc EXCEPT !.pc = "create user"]

\* create_database: CREATE USER, in autocommit mode
create_database_user ==
    /\ proc.pc = "create user"
    /\ IF server.db_user
       THEN /\ proc' = startup_failed("Unable to create")
            /\ UNCHANGED server
       ELSE /\ server' = [server EXCEPT !.db_user = TRUE]
            /\ proc' = [proc EXCEPT !.pc = "grant"]

\* create_database: GRANT ALL ON DATABASE, and the return of db_exists
create_database_grant ==
    /\ proc.pc = "grant"
    /\ proc' = [proc EXCEPT !.pc = "connect"]
    /\ UNCHANGED server

\* self.engine.connect() as the user of the application, and the test of
\* db_exists
engine_connect ==
    /\ proc.pc = "connect"
    /\ IF server.database /\ server.db_user
       THEN proc' = [proc EXCEPT !.pc = IF needs_provisioning(proc.db_exists)
                                        THEN "create_all" ELSE "running"]
       ELSE proc' = startup_failed("Unable to start database session")
    /\ UNCHANGED server

\* AlchemyBase.metadata.create_all(self.engine): the tables that are missing
create_all ==
    /\ proc.pc = "create_all"
    /\ server' = [server EXCEPT !.tables = TRUE]
    /\ proc' = [proc EXCEPT !.pc = "create_schema_row"]

\* create_schema_row; name is the primary key of table "schema"
create_schema_row ==
    /\ proc.pc = "create_schema_row"
    /\ IF \E row \in server.schema : row.name = SchemaRow.name
       THEN /\ proc' = startup_failed("Unable to create schema row")
            /\ UNCHANGED server
       ELSE /\ server' = [server EXCEPT !.schema = @ \cup {SchemaRow}]
            /\ proc' = [proc EXCEPT !.pc = "running"]

\* The process stops before its start is over: it is killed, or its
\* container is
startup_stopped ==
    /\ ~NotStarting
    /\ proc' = [proc EXCEPT !.pc = "stopped"]
    /\ UNCHANGED server

\* A server on which nothing of the application exists, a deployment whose
\* backend has not been started
InitProvision ==
    /\ users = {}
    /\ entries = {}
    /\ users_id_seq = IDENTITY_START
    /\ entries_id_seq = IDENTITY_START
    /\ now = 0
    /\ tokens = {}
    /\ last = NoOperation
    /\ plot_lock = Lock
    /\ graph = [r \in Requests |-> NoRequest]
    /\ txns = [w \in Writers |-> NoTransaction]
    /\ server = FreshServer
    /\ proc = NoProcedure
    /\ files = DeployedFiles(HOMEPAGE, "prod", SecretText("Z", "7", PW_LEN, "x"),
                             SecretText("7", "Z", PW_LEN, "x"),
                             SecretText("0", "f", 2 * (TOKEN_BIT_COUNT \div 8), "c"))
    /\ keys = NoKeys

\* What no step of a start changes
StartupUnchanged ==
    UNCHANGED <<users, entries, users_id_seq, entries_id_seq, now, tokens, last,
                plot_lock, graph, txns, files, keys>>

\* The backend that is running serves requests
ServesRequests == proc.pc = "running" /\ server.tables /\ last = NoOperation

NextProvision ==
    \/ startup_begin /\ StartupUnchanged
    \/ create_database_select /\ StartupUnchanged
    \/ create_database_create /\ StartupUnchanged
    \/ create_database_user /\ StartupUnchanged
    \/ create_database_grant /\ StartupUnchanged
    \/ engine_connect /\ StartupUnchanged
    \/ create_all /\ StartupUnchanged
    \/ create_schema_row /\ StartupUnchanged
    \/ /\ ServesRequests
       /\ UNCHANGED <<plot_lock, graph, txns, deployment>>
       /\ \E new_user \in NewUsers :
            add_user(new_user[1], new_user[2], new_user[3], new_user[4])
    \/ /\ ServesRequests
       /\ UNCHANGED <<plot_lock, graph, txns, deployment>>
       /\ \E username \in Usernames : delete_user(username)
    \/ /\ ServesRequests
       /\ UNCHANGED <<plot_lock, graph, txns, deployment>>
       /\ \E entry \in AddEntryArgs : add_entry(entry)
    \/ Return

SpecProvision == InitProvision /\ [][NextProvision]_vars

NextProvisionStopped ==
    \/ NextProvision
    \/ startup_stopped /\ StartupUnchanged

SpecProvisionStopped == InitProvision /\ [][NextProvisionStopped]_vars

----------------------------------------------------------------------------
(* Database.restore, one statement a step.  The transaction of the restore *)
(* works on proc.view; the stored rows change when it commits.             *)

\* A statement of a dump: an INSERT of `row` into `table`, or, with table
\* "", text that is not SQL
Insert(table, row) == [table |-> table, row |-> row]

\* The rows of a backup made earlier
BackupUser ==
    [id |-> IDENTITY_START, password |-> [argon2 |-> "boop de doop"],
     username |-> "Betty", metric |-> FALSE, goal_weight |-> 7500]

BackupEntry ==
    [id |-> IDENTITY_START, user_id |-> IDENTITY_START,
     date |-> Date(2022, 3, 22), weight |-> 7000, metric |-> FALSE]

\* The files restore is called with: a dump of do_db_backup, a dump of an
\* empty database, a dump that was cut off in a statement, and a dump whose
\* rows collide.  "missing.sql" does not exist.
RestoreFiles ==
    [n \in {"backup.sql", "empty.sql", "cut.sql", "twice.sql"} |->
        CASE n = "backup.sql" ->
                <<Insert("schema", SchemaRow), Insert("users", BackupUser),
                  Insert("entries", BackupEntry)>>
          [] n = "empty.sql" -> <<Insert("schema", SchemaRow)>>
          [] n = "cut.sql" ->
                <<Insert("schema", SchemaRow), Insert("users", BackupUser),
                  Insert("", BackupEntry)>>
          [] n = "twice.sql" ->
                <<Insert("schema", SchemaRow), Insert("users", BackupUser),
                  Insert("users", BackupUser)>>]

RestoreFilenames == DOMAIN RestoreFiles \cup {"missing.sql"}

\* The rows a transaction sees
View(user_rows, entry_rows, schema_rows) ==
    [users |-> user_rows, entries |-> entry_rows, schema |-> schema_rows]

\* TRUE when the statement raises psycopg2.Error in a transaction that sees
\* `view`: no SQL, a primary key or unique constraint, the foreign key
statement_fails(view, statement) ==
    CASE statement.table = "schema" ->
            \E r \in view.schema : r.name = statement.row.name
      [] statement.table = "users" ->
            \E r \in view.users : \/ r.id = statement.row.id
                                   \/ r.username = statement.row.username
      [] statement.table = "entries" ->
            \/ \E r \in view.entries :
                    \/ r.id = statement.row.id
                    \/ r.user_id = statement.row.user_id /\ r.date = statement.row.date
            \/ \A u \in view.users : u.id # statement.row.user_id
      [] OTHER -> TRUE

\* The view after the statement
statement_result(view, statement) ==
    CASE statement.table = "schema" ->
            [view EXCEPT !.schema = @ \cup {statement.row}]
      [] statement.table = "users" ->
            [view EXCEPT !.users = @ \cup {statement.row}]
      [] OTHER -> [view EXCEPT !.entries = @ \cup {statement.row}]

\* cur.execute(restore_file.read()): the statements in order up to the first
\* that fails
RECURSIVE cur_execute(_, _, _)
cur_execute(view, statements, i) ==
    IF i > Len(statements) THEN [ok |-> TRUE, view |-> view]
    ELSE IF statement_fails(view, statements[i])
         THEN [ok |-> FALSE, view |-> view]
         ELSE cur_execute(statement_result(view, statements[i]), statements, i + 1)

\* conn.close() that commits what the transaction did
conn_close_commits(stored, view) == view

\* conn.close(): work that was not committed is rolled back
conn_close(stored, view) == stored

\* No procedure is in progress
Idle == proc.name = ""

\* The restore leaves its `try`: with `error` when it is not ""
restore_leaves(error, failed_in) ==
    [proc EXCEPT !.pc = "close", !.error = error, !.failed_in = failed_in]

\* restore is called: open_direct_connection(ISOLATION_LEVEL_SERIALIZABLE)
restore_begin(filename) ==
    /\ Idle
    /\ last = NoOperation
    /\ proc' = [name |-> "restore", pc |-> "open", filename |-> filename,
                execute_failed |-> FALSE, error |-> "", failed_in |-> "",
                view |-> View(users, entries, server.schema),
                before |-> View(users, entries, server.schema)]
    /\ UNCHANGED <<users, entries, server, last>>

\* open(filename, "r", encoding="utf-8")
restore_open ==
    /\ proc.name = "restore" /\ proc.pc = "open"
    /\ proc' = IF proc.filename \in DOMAIN RestoreFiles
               THEN [proc EXCEPT !.pc = "DELETE FROM entries;"]
               ELSE restore_leaves("Unable to read file", "open")
    /\ UNCHANGED <<users, entries, server, last>>

\* The statement after a DELETE
after_delete(statement) ==
    CASE statement = "DELETE FROM entries;" -> "DELETE FROM users;"
      [] statement = "DELETE FROM users;" -> "DELETE FROM schema;"
      [] OTHER -> "execute"

\* cur.execute('DELETE FROM ...;'); it raises psycopg2.Error when the table
\* does not exist, and when the server says so (raises)
restore_delete(raises) ==
    /\ proc.name = "restore"
    /\ proc.pc \in {"DELETE FROM entries;", "DELETE FROM users;", "DELETE FROM schema;"}
    /\ proc' = IF raises \/ ~server.tables
               THEN restore_leaves("Unable to restore database.", "delete")
               ELSE [proc EXCEPT
                        !.pc = after_delete(proc.pc),
                        !.view = CASE proc.pc = "DELETE FROM entries;" ->
                                        [@ EXCEPT !.entries = {}]
                                   [] proc.pc = "DELETE FROM users;" ->
                                        [@ EXCEPT !.users = {}]
                                   [] OTHER -> [@ EXCEPT !.schema = {}]]
    /\ UNCHANGED <<users, entries, server, last>>

\* cur.execute(restore_file.read()) and its `except psycopg2.Error`
restore_execute ==
    /\ proc.name = "restore" /\ proc.pc = "execute"
    /\ LET result == cur_execute(proc.view, RestoreFiles[proc.filename], 1)
       IN  proc' = IF result.ok
                   THEN [proc EXCEPT !.pc = "commit", !.view = result.view]
                   ELSE [restore_leaves("Unable to restore database.\nThe SQL in "
                                        \o proc.filename \o " failed to run.",
                                        "execute")
                            EXCEPT !.execute_failed = TRUE, !.view = result.view]
    /\ UNCHANGED <<users, entries, server, last>>

\* conn.commit()
restore_commit ==
    /\ proc.name = "restore" /\ proc.pc = "commit"
    /\ users' = proc.view.users
    /\ entries' = proc.view.entries
    /\ server' = [server EXCEPT !.schema = proc.view.schema]
    /\ proc' = [proc EXCEPT !.pc = "close"]
    /\ UNCHANGED last

\* `finally: conn.close()`, and what restore raises or returns
restore_close ==
    /\ proc.name = "restore" /\ proc.pc = "close"
    /\ users' = conn_close(users, proc.view.users)
    /\ entries' = conn_close(entries, proc.view.entries)
    /\ server' = [server EXCEPT !.schema = conn_close(@, proc.view.schema)]
    /\ last' = IF proc.error = "" THEN Returned("restore", <<>>)
               ELSE WeightLogError("restore", proc.error)
    /\ proc' = NoProcedure

\* What no step of a restore changes
RestoreUnchanged ==
    UNCHANGED <<users_id_seq, entries_id_seq, now, tokens, plot_lock, graph,
                txns, files, keys>>

NextRestore ==
    \/ \E filename \in RestoreFilenames : restore_begin(filename) /\ RestoreUnchanged
    \/ restore_open /\ RestoreUnchanged
    \/ \E raises \in BOOLEAN : restore_delete(raises) /\ RestoreUnchanged
    \/ restore_execute /\ RestoreUnchanged
    \/ restore_commit /\ RestoreUnchanged
    \/ restore_close /\ RestoreUnchanged
    \/ /\ Idle /\ last = NoOperation
       /\ UNCHANGED <<plot_lock, graph, txns, deployment>>
       /\ \E new_user \in NewUsers :
            add_user(new_user[1], new_user[2], new_user[3], new_user[4])
    \/ /\ Idle /\ last = NoOperation
       /\ UNCHANGED <<plot_lock, graph, txns, deployment>>
       /\ \E entry \in AddEntryArgs : add_entry(entry)
    \/ Return

SpecRestore == Init /\ [][NextRestore]_vars

----------------------------------------------------------------------------
(* wl-admin: init, docker build and docker rm *)

\* What lookup_entropy_avail can return
EntropyAvail == {0, 127, 128, 256}

\* The values of --homepage: a URL and a text that is none
Homepages == {HOMEPAGE, <<"w", "l">>}

\* validators.url(homepage), for the values of Homepages
validators_url(homepage) ==
    /\ Len(homepage) > 8
    /\ SubSeq(homepage, 1, 8) = <<"h", "t", "t", "p", "s", ":", "/", "/">>

\* __check_state_for_init: entropy_bytes_needed
entropy_bytes_needed == ((TOKEN_BIT_COUNT + 2 * PW_BIT_COUNT + 7) \div 8) * 2

\* A check for a deployment that finds none
deployment_artifacts_never(deployed) == FALSE

\* __deployment_artifacts_exist: the config directory, or images and
\* containers of docker
deployment_artifacts_exist(deployed) == deployed.config_dir \/ deployed.docker

\* A command of wl-admin raised AdminError
AdminError(op, detail) ==
    [NoOperation EXCEPT !.op = op, !.status = 0, !.detail = detail,
                        !.ex = "AdminError"]

\* __check_state_for_init: the message of the check that fails first, "" when
\* none fails
check_state_for_init(deployed, homepage, entropy_avail) ==
    IF ~validators_url(homepage) THEN "--homepage needs to be a URL"
    ELSE IF deployment_artifacts_exist(deployed)
    THEN "An existing deployment was found. To remove it run:\nwl-admin docker rm"
    ELSE IF entropy_avail < entropy_bytes_needed
    THEN "Not enough entropy to create passwords and keys"
    ELSE ""

\* Admin.do_init
do_init(homepage, depl_env, entropy_avail, postgres_password, db_password, token_key) ==
    LET failed == check_state_for_init(files, homepage, entropy_avail)
    IN  /\ last = NoOperation
        /\ IF failed # ""
           THEN /\ last' = AdminError("do_init", failed)
                /\ UNCHANGED files
           ELSE /\ last' = Returned("do_init", <<>>)
                /\ files' = [DeployedFiles(homepage, depl_env, postgres_password,
                                           db_password, token_key)
                                EXCEPT !.docker = files.docker]

\* Admin.do_docker_build: images exist after it
do_docker_build ==
    /\ last = NoOperation
    /\ IF CONFIG_FILE \in DOMAIN files.file
       THEN /\ last' = Returned("do_docker_build", <<>>)
            /\ files' = [files EXCEPT !.docker = TRUE]
       ELSE /\ last' = AdminError("do_docker_build",
                                  IF deployment_artifacts_exist(files)
                                  THEN "No deployment setting found in " \o CONFIG_FILE
                                  ELSE "No deployment found. To deploy run:\nwl-admin init ")
            /\ UNCHANGED files

\* Admin.do_docker_rm, answered with y: the content of docker and the config
\* directory with all that is in it are deleted
do_docker_rm ==
    /\ last = NoOperation
    /\ last' = Returned("do_docker_rm", <<>>)
    /\ files' = [NoFiles EXCEPT
                    !.file = [n \in DOMAIN files.file \cap {FRONTEND_ENV_FILE} |->
                                files.file[n]]]

\* No deployment, before wl-admin init
InitAdmin ==
    /\ users = {}
    /\ entries = {}
    /\ users_id_seq = IDENTITY_START
    /\ entries_id_seq = IDENTITY_START
    /\ now = 0
    /\ tokens = {}
    /\ last = NoOperation
    /\ plot_lock = Lock
    /\ graph = [r \in Requests |-> NoRequest]
    /\ txns = [w \in Writers |-> NoTransaction]
    /\ server = FreshServer
    /\ proc = NoProcedure
    /\ files = NoFiles
    /\ keys = NoKeys

\* What no command of wl-admin changes
AdminUnchanged ==
    UNCHANGED <<users, entries, users_id_seq, entries_id_seq, now, tokens,
                plot_lock, graph, txns, server, proc, keys>>

NextAdmin ==
    \/ /\ AdminUnchanged
       /\ \E homepage \in Homepages, depl_env \in {"dev", "prod"},
             entropy_avail \in EntropyAvail,
             postgres_password \in generate_password,
             db_password \in generate_password, token_key \in token_hex :
            do_init(homepage, depl_env, entropy_avail, postgres_password,
                    db_password, token_key)
    \/ do_docker_build /\ AdminUnchanged
    \/ do_docker_rm /\ AdminUnchanged
    \/ Return /\ UNCHANGED files

SpecAdmin == InitAdmin /\ [][NextAdmin]_vars

----------------------------------------------------------------------------
(* The keys of the backend: load_keys, lookup_key and the token key of     *)
(* UserManager                                                             *)

\* What an operator may have done to keys-backend.env after do_init wrote it:
\* nothing, a line without "=" after the keys, a line with "=" twice before
\* them, and an empty line and a line without "=" between them
KeyFileEdits == {"none", "line without =", "line with = twice", "empty line"}

KeysBackendEdited(edit, db_password, token_key) ==
    CASE edit = "none" ->
            write_env_var(DB_PASSWORD, db_password)
            \o write_env_var(TOKEN_KEY_NAME, token_key)
      [] edit = "line without =" ->
            write_env_var(DB_PASSWORD, db_password)
            \o write_env_var(TOKEN_KEY_NAME, token_key) \o <<"#", " ", "k">>
      [] edit = "line with = twice" ->
            <<"A", "=", "b", "=", "c", "\n">>
            \o write_env_var(DB_PASSWORD, db_password)
            \o write_env_var(TOKEN_KEY_NAME, token_key)
      [] OTHER ->
            write_env_var(DB_PASSWORD, db_password) \o <<" ", "\n", "k", "\n">>
            \o write_env_var(TOKEN_KEY_NAME, token_key)

\* The names lookup_key is called with
KeyNames == {POSTGRES_PASSWORD, DB_PASSWORD, TOKEN_KEY_NAME, <<"N", "O">>}

\* Service.__init__, "Load keys."
Service_load_keys ==
    LET result == load_keys(keys, files.file)
    IN  /\ last = NoOperation
        /\ keys' = result.keys
        /\ last' = IF result.ok THEN Returned("load_keys", <<>>)
                   ELSE IF result.line_no = 0
                   THEN WeightLogError("load_keys",
                            "Could not load keys from " \o result.file_name)
                   ELSE WeightLogError("load_keys",
                            "Unexpected key entry on line " \o ToString(result.line_no)
                            \o " of " \o result.file_name)
        /\ UNCHANGED files

\* lookup_key
lookup_key(key_name) ==
    /\ last = NoOperation
    /\ last' = IF key_name \in DOMAIN keys
               THEN Returned("lookup_key", <<keys[key_name]>>)
               ELSE WeightLogError("lookup_key", "Key not found")
    /\ UNCHANGED <<keys, files>>

\* UserManager.__init__, "Lookup token signing key."
UserManager_init ==
    /\ last = NoOperation
    /\ last' = IF TOKEN_KEY_NAME \notin DOMAIN keys
               THEN WeightLogError("UserManager.__init__", "Key not found")
               ELSE IF Len(keys[TOKEN_KEY_NAME]) # EXPECTED_TOKEN_LEN
               THEN WeightLogError("UserManager.__init__",
                        "TOKEN_KEY is " \o ToString(Len(keys[TOKEN_KEY_NAME]))
                        \o " chars long versus " \o ToString(EXPECTED_TOKEN_LEN) \o ".")
               ELSE Returned("UserManager.__init__", <<>>)
    /\ UNCHANGED <<keys, files>>

\* A deployment made by do_init, whose keys-backend.env may have been edited,
\* before the backend starts
InitKeys ==
    /\ users = {}
    /\ entries = {}
    /\ users_id_seq = IDENTITY_START
    /\ entries_id_seq = IDENTITY_START
    /\ now = 0
    /\ tokens = {}
    /\ last = NoOperation
    /\ plot_lock = Lock
    /\ graph = [r \in Requests |-> NoRequest]
    /\ txns = [w \in Writers |-> NoTransaction]
    /\ server = FreshServer
    /\ proc = NoProcedure
    /\ keys = NoKeys
    /\ \E postgres_password \in generate_password, db_password \in generate_password,
          token_key \in token_hex, edit \in KeyFileEdits :
            LET deployed == DeployedFiles(HOMEPAGE, "prod", postgres_password,
                                          db_password, token_key)
            IN  files = [deployed EXCEPT
                            !.file[KEYS_BACKEND_FILE] =
                                KeysBackendEdited(edit, db_password, token_key)]

\* What the loading of keys does not change
KeysUnchanged ==
    UNCHANGED <<users, entries, users_id_seq, entries_id_seq, now, tokens,
                plot_lock, graph, txns, server, proc>>

NextKeys ==
    \/ Service_load_keys /\ KeysUnchanged
    \/ \E key_name \in KeyNames : lookup_key(key_name) /\ KeysUnchanged
    \/ UserManager_init /\ KeysUnchanged
    \/ Return /\ UNCHANGED <<files, keys>>

SpecKeys == InitKeys /\ [][NextKeys]_vars

----------------------------------------------------------------------------
(* Calls of the conversion functions of util.py *)

\* The weights converted: 0.00 up to MaxWeight hundredths
WeightInputs == 0 .. MaxWeight

\* A call of convert_to_metric; the caller gets the weight in kilograms
call_convert_to_metric(lbs) ==
    last' = Returned("convert_to_metric", <<lbs, convert_to_metric(lbs)>>)

\* A call of convert_to_english; the caller gets the weight in pounds
call_convert_to_english(kilograms) ==
    last' = Returned("convert_to_english",
                     <<kilograms, convert_to_english(kilograms)>>)

NextUnits ==
    \/ /\ last = NoOperation
       /\ \E lbs \in WeightInputs : call_convert_to_metric(lbs)
       /\ UNCHANGED <<users, entries, users_id_seq, entries_id_seq, now, tokens>>
       /\ UNCHANGED <<plot_lock, graph, txns, deployment>>
    \/ /\ last = NoOperation
       /\ \E kilograms \in WeightInputs : call_convert_to_english(kilograms)
       /\ UNCHANGED <<users, entries, users_id_seq, entries_id_seq, now, tokens>>
       /\ UNCHANGED <<plot_lock, graph, txns, deployment>>
    \/ Return

SpecUnits == Init /\ [][NextUnits]_vars

----------------------------------------------------------------------------
(* Properties of the entry store *)

\* C1: in every reachable state there is at most one stored entry for each
\* (user id, date) pair.
C1_UserDateUnique ==
    \A r1 \in entries, r2 \in entries :
        (r1.user_id = r2.user_id /\ r1.date = r2.date) => r1 = r2

\* An update that would have moved an entry onto the date of another entry of
\* the same user was refused.
C1_Witness ==
    /\ last.op = "update_entry"
    /\ last.detail = "already exists"
    /\ Cardinality(entries) >= 2

C3_NotFound ==
    [][/\ \A entry \in EntryArgs :
            (/\ last'.op = "update_entry"
             /\ \A r \in entries : r.id # entry.id
             /\ update_entry(entry)) =>
                /\ last'.ex = "HTTPException"
                /\ last'.status = BAD_REQUEST
                /\ last'.detail = "not found"
                /\ entries' = entries
       /\ \A user_id \in UserIds, entry_date \in Dates :
            (/\ last'.op = "delete_entry"
             /\ \A r \in entries : ~(r.user_id = user_id /\ r.date = entry_date)
             /\ delete_entry(user_id, entry_date)) =>
                /\ last'.ex = "HTTPException"
                /\ last'.status = BAD_REQUEST
                /\ last'.detail = "not found"
                /\ entries' = entries
      ]_vars

\* A delete or an update missed while entries were stored.
C3_Witness ==
    /\ last.op \in {"update_entry", "delete_entry"}
    /\ last.detail = "not found"
    /\ entries # {}

\* C4: get_entries(user) returns each stored entry of that user once, no
\* entry of another user, in ascending order of date.
C4_GetEntries ==
    \A u \in users :
        LET got == get_entries(create_user_from_row(u))
            own == {r \in entries : r.user_id = u.id}
        IN  /\ Len(got) = Cardinality(own)
            /\ \A r \in own : \E i \in 1 .. Len(got) :
                    /\ got[i].id = r.id
                    /\ got[i].user_id = r.user_id
                    /\ got[i].date = r.date
            /\ \A i \in 1 .. Len(got) : \A j \in 1 .. Len(got) :
                    i < j => got[i].date < got[j].date

\* A user has two entries of which the later one was inserted first, and
\* get_entries returns both.
C4_Witness ==
    \E u \in users : \E r1 \in entries, r2 \in entries :
        /\ r1.user_id = u.id /\ r2.user_id = u.id
        /\ r1.id < r2.id /\ r1.date > r2.date
        /\ Len(get_entries(create_user_from_row(u))) = 2

\* C5: after update_entry(entry) returns, get_entry_from_entry_id(entry.id)
\* is an entry with the date, weight and unit flag of the update and the id
\* and owner the row had, and every other row is as it was.
C5_UpdateEntry ==
    [][\A entry \in EntryArgs :
        (last'.op = "update_entry" /\ last'.ex = "none" /\ update_entry(entry)) =>
            \E old \in entries :
                /\ old.id = entry.id
                /\ get_entry_from_entry_id(entry.id)' =
                     <<[id |-> entry.id, user_id |-> old.user_id,
                        date |-> entry.date, weight |-> entry.weight,
                        is_metric |-> entry.is_metric]>>
                /\ entries' \ {r \in entries' : r.id = entry.id} = entries \ {old}
      ]_vars

\* An update returned that changed the unit flag of a row to pounds and left
\* a weight with two decimals, while another row is stored.
C5_Witness ==
    /\ last.op = "update_entry"
    /\ last.ex = "none"
    /\ Cardinality(entries) >= 2
    /\ \E r \in entries : r.weight % 10 # 0 /\ ~r.metric

\* C6: after delete_entry(user id, date) returns, the row it found is
\* retrievable neither by its id nor by (user id, date), and every other row
\* is as it was.
C6_DeleteEntry ==
    [][\A user_id \in UserIds, entry_date \in Dates :
        (/\ last'.op = "delete_entry" /\ last'.ex = "none"
         /\ delete_entry(user_id, entry_date)) =>
            \E old \in entries :
                /\ old.user_id = user_id
                /\ old.date = entry_date
                /\ get_entry_from_entry_id(old.id)' = <<>>
                /\ get_entry_from_user_id(user_id, entry_date)' = <<>>
                /\ entries' = entries \ {old}
      ]_vars

\* A delete returned and an entry of the same date or of the same user is
\* still stored.
C6_Witness ==
    /\ last.op = "delete_entry"
    /\ last.ex = "none"
    /\ entries # {}

----------------------------------------------------------------------------
(* Properties of users and tokens *)

\* C7: the token a successful login(username, password) returns resolves,
\* presented at once (to the users and the clock as login left them, which
\* are those it found), to the stored user of that name; presenting a token
\* whose expiry lies in the past fails; presenting a token signed with a key
\* other than the service's fails.
C7_Tokens ==
    [][/\ \A username \in LoginUsernames, password \in LoginPasswords :
            (last'.op = "login" /\ last'.ex = "none" /\ login(username, password)) =>
                \E token \in tokens' :
                    /\ last'.ret = <<token>>
                    /\ UNCHANGED <<users, now>>
                    /\ LET presented ==
                            UserManager_get_user_from_token("get_user_from_token",
                                                            token)
                       IN  /\ presented.ex = "none"
                           /\ presented.ret[1].username = username
                           /\ presented.ret = get_user_from_username(username)
       /\ \A token \in tokens \cup TokensPresented :
            (/\ last'.op = "get_user_from_token"
             /\ \/ token.claims.exp[1] < now
                \/ token.signature.key # TOKEN_KEY
             /\ get_user_from_token(token)) =>
                /\ last'.ex # "none"
                /\ last'.status = UNAUTHORIZED
                /\ last'.ret = <<>>
      ]_vars

\* A token the service issued was presented after its expiry and refused.
C7_Witness ==
    /\ last.op = "get_user_from_token"
    /\ last.log = "Token has expired"
    /\ last.status = UNAUTHORIZED
    /\ \E token \in tokens : token.claims.exp[1] < now

\* C8: every failure of login and of get_user_from_token reaches the caller
\* as the same error, status 401 with 'Could not validate credentials' and
\* nothing else, whichever check failed.
C8_SameCredentialsError ==
    [][(last'.op \in {"login", "get_user_from_token"} /\ last'.ex # "none") =>
            /\ last'.ex = "HTTPException"
            /\ last'.status = UNAUTHORIZED
            /\ last'.detail = "Could not validate credentials"
            /\ last'.ret = <<>>
      ]_vars

\* The token of a user who has since been deleted was presented and refused.
C8_Witness ==
    /\ last.op = "get_user_from_token"
    /\ last.log = "User not found for token"
    /\ last.status = UNAUTHORIZED
    /\ \E token \in tokens : \A u \in users : IntToStr(u.id) # token.claims.sub[1]

\* C9: add_user with a username that is stored raises and leaves the users
\* as they were; add_user with a username that is not stored, of at most 32
\* characters, and a password that is not empty returns, and afterwards
\* get_user_from_username and get_users give a user with that username, unit
\* preference and goal weight, next to the users there were.
C9_AddUser ==
    [][\A new_user \in NewUsers :
        (/\ last'.op = "add_user"
         /\ add_user(new_user[1], new_user[2], new_user[3], new_user[4])) =>
          IF \E u \in users : u.username = new_user[1]
          THEN last'.ex # "none" /\ users' = users
          ELSE (Len(new_user[1]) <= USERNAME_MAX_LEN /\ new_user[4] # "") =>
               /\ last'.ex = "none"
               /\ Len(get_user_from_username(new_user[1])') = 1
               /\ LET user == get_user_from_username(new_user[1])'[1]
                  IN  /\ user.username = new_user[1]
                      /\ user.metric = new_user[2]
                      /\ user.goal_weight = new_user[3]
                      /\ user \in get_users'
                      /\ \A u \in users : u.id # user.id
                      /\ get_users' \ {user} = get_users
      ]_vars

\* add_user returned for a metric user with a goal weight of two decimals,
\* next to a user stored before.
C9_Witness ==
    /\ last.op = "add_user"
    /\ last.ex = "none"
    /\ Cardinality(users) = 2
    /\ \E u \in users :
            u.id = users_id_seq - 1 /\ u.metric /\ u.goal_weight % 10 # 0

\* C10: when add_user fails because the username exists, the error carries a
\* client-error (4xx) status, not the internal-error status.
C10_DuplicateUserIsClientError ==
    (last.op = "add_user" /\ last.detail = "already exists") =>
        /\ last.ex = "WeightLogError"
        /\ last.status \in 400 .. 499

----------------------------------------------------------------------------
(* Properties of the user operations *)

\* C11: Service.add_user with a User whose username is not stored and at most
\* 32 characters long and whose password is not empty returns, and the user
\* is stored afterwards.
C11_ServiceAddUserCreates ==
    [][\A new_user \in SubmittedUsers :
        (/\ last'.op = "Service_add_user"
         /\ UserRowsByUsername(new_user.username) = {}
         /\ Len(new_user.username) <= USERNAME_MAX_LEN
         /\ new_user.password # ""
         /\ Service_add_user(new_user)) =>
            /\ last'.ex = "none"
            /\ \E u \in users' : u.username = new_user.username
      ]_vars

\* C12: update_user with a username other than the user's own that another
\* stored user has raises and leaves the users as they were; when update_user
\* returns, the stored goal weight is a multiple of a tenth at most half a
\* tenth away from the one submitted, and the other users are as they were;
\* after every step no two stored users share a username.
C12_UpdateUser ==
    [][/\ \A user_id \in UserIds, updated_user \in UpdatedUsers :
            (last'.op = "update_user" /\ update_user(user_id, updated_user)) =>
                \A row \in users : row.id = user_id =>
                    IF /\ updated_user.username # row.username
                       /\ \E other \in users :
                            other.id # user_id /\ other.username = updated_user.username
                    THEN last'.ex # "none" /\ users' = users
                    ELSE last'.ex = "none" =>
                         \E new_row \in users' :
                            /\ new_row.id = user_id
                            /\ new_row.goal_weight % 10 = 0
                            /\ new_row.goal_weight - updated_user.goal_weight \in -5 .. 5
                            /\ users' \ {new_row} = users \ {row}
       /\ \A u1 \in users', u2 \in users' : u1.username = u2.username => u1 = u2
      ]_vars

\* update_user was refused the username of another stored user.
C12_Witness ==
    /\ last.op = "update_user"
    /\ last.detail = "already in use"
    /\ Cardinality(users) = 2

C14_DeleteUser ==
    [][/\ \A username \in Usernames :
            (last'.op = "delete_user" /\ delete_user(username)) =>
                IF \E u \in users : u.username = username
                THEN \E u \in users :
                        /\ u.username = username
                        /\ last'.ex = "none"
                        /\ users' = users \ {u}
                        /\ entries' = {r \in entries : r.user_id # u.id}
                ELSE /\ last'.ex # "none"
                     /\ users' = users
                     /\ entries' = entries
       /\ \A r \in entries' : \E u \in users' : u.id = r.user_id
      ]_vars

\* A user was deleted after two inserts into entries were made, and the
\* entry of another user is still stored.
C14_Witness ==
    /\ last.op = "delete_user"
    /\ last.ex = "none"
    /\ Cardinality(users) = 1
    /\ Cardinality(entries) = 1
    /\ entries_id_seq = IDENTITY_START + 2

----------------------------------------------------------------------------
(* Properties of units and their conversion *)

\* C17: the list get_entries(user) returns has one entry for each row of the
\* user; an entry has the user's unit flag, and its weight is the stored
\* weight when the row is in the user's unit, convert_to_metric of it when a
\* metric user reads a row in pounds, convert_to_english of it when an
\* imperial user reads a row in kilograms; reading changes no row.
C17_GetEntriesUnits ==
    [][last'.op = "get_entries" =>
        /\ entries' = entries
        /\ \E u \in users :
            LET own == {r \in entries : r.user_id = u.id}
                got == last'.ret
            IN  /\ Len(got) = Cardinality(own)
                /\ \A i \in 1 .. Len(got) : \E r \in own :
                    /\ got[i].id = r.id
                    /\ got[i].is_metric = u.metric
                    /\ r.metric = u.metric => got[i].weight = r.weight
                    /\ (u.metric /\ ~r.metric) =>
                            got[i].weight = convert_to_metric(r.weight)
                    /\ (~u.metric /\ r.metric) =>
                            got[i].weight = convert_to_english(r.weight)]_vars

\* A metric user has read a row stored in pounds, an imperial user a row
\* stored in kilograms, or a user a row in their own unit next to one that is
\* not, and the weight returned for a converted row is not the stored one
C17_Witness ==
    /\ last.op = "get_entries"
    /\ Len(last.ret) = 2
    /\ \E u \in users : \E r1 \in entries, r2 \in entries :
        /\ r1.user_id = u.id /\ r2.user_id = u.id
        /\ r1.metric = u.metric /\ r2.metric # u.metric
        /\ \E i \in 1 .. 2 : last.ret[i].id = r2.id /\ last.ret[i].weight # r2.weight

\* C18: the result of convert_to_metric is a whole number of tenths of a
\* kilogram and the nearest one to lbs * 0.45359237; the result of
\* convert_to_english is a whole number of pounds and the nearest one to
\* kilograms / 0.45359237; convert_to_metric(150) is 68.0 and
\* convert_to_english(68) is 150.0.  Weights are hundredths: with t tenths
\* from lbs hundredths, lbs * 45359237 - t * 10^9 is at most 5 * 10^8 either
\* way; with n pounds from kg hundredths, kg * 10^6 - n * 45359237 is at
\* most half of 45359237 either way.
C18_Conversions ==
    /\ last.op = "convert_to_metric" =>
        LET lbs == last.ret[1]
            tenths == last.ret[2] \div 10
            high == lbs * 4535 - tenths * 100000
        IN  /\ last.ret[2] % 10 = 0
            /\ high \in -100000 .. 100000
            /\ high * 10000 + lbs * 9237 \in -500000000 .. 500000000
            /\ lbs = 15000 => last.ret[2] = 6800
    /\ last.op = "convert_to_english" =>
        LET kilograms == last.ret[1]
            pounds == last.ret[2] \div 100
            high == kilograms * 100 - pounds * 4535
                        - (pounds * 9237) \div 10000
            low == (pounds * 9237) % 10000
        IN  /\ last.ret[2] % 100 = 0
            /\ high \in -10000 .. 10000
            /\ 2 * (high * 10000 - low) \in -KG_PER_LB_E8 .. KG_PER_LB_E8
            /\ kilograms = 6800 => last.ret[2] = 15000

\* 149.60 lb has been converted: it is 67.9 kg, which is not the product
\* 67.857... itself, and converting 67.9 kg back gives 150 lb, not 149.60
C18_Witness ==
    /\ last.op = "convert_to_metric"
    /\ last.ret = <<14960, 6790>>
    /\ convert_to_english(last.ret[2]) = 15000

----------------------------------------------------------------------------
(* Properties of the CSV import *)

\* C19: when the first line of the file, split at its commas, is not the
\* three names Date, Weight, Units (spaces around a name aside), the import
\* raises an error of the header, whatever the data lines are, no entry is
\* added, changed or removed, and no id is drawn.
C19_BadHeader ==
    [][\A user_id \in UserIds, csv \in AllCsvTexts :
        LET headers == split(strip(split(csv, "\n")[1]), ",")
            expected == /\ Len(headers) = 3
                        /\ strip(headers[1]) = <<"D", "a", "t", "e">>
                        /\ strip(headers[2]) = <<"W", "e", "i", "g", "h", "t">>
                        /\ strip(headers[3]) = <<"U", "n", "i", "t", "s">>
        IN  ( /\ last'.op = "add_entries_from_csv"
              /\ ~expected
              /\ add_entries_from_csv(user_id, [decodes |-> TRUE, text |-> csv]) )
            => /\ last'.ex = "WeightLogError"
               /\ last'.detail \in {"No column headers found", "Expected columns",
                                    "Expected column header"}
               /\ entries' = entries
               /\ entries_id_seq' = entries_id_seq]_vars

\* The import of a file with a wrong column name has failed on its header
\* and the entry stored before is still there
C19_Witness ==
    /\ last.op = "add_entries_from_csv"
    /\ last.ex = "WeightLogError"
    /\ last.detail = "Expected column header"
    /\ entries # {}

\* C20: when the header is the expected one and some line after it is not
\* blank and is not three values that parse as date, weight and unit, the
\* import raises an error whose message ends with the number of the first
\* such line, counting the header as line 1 and counting blank lines; no
\* entry is added, changed or removed, and no id is drawn.
C20_BadLine ==
    [][\A user_id \in UserIds, csv \in AllCsvTexts :
        LET lines == split(csv, "\n")
            headers == split(strip(lines[1]), ",")
            expected == /\ Len(headers) = 3
                        /\ strip(headers[1]) = <<"D", "a", "t", "e">>
                        /\ strip(headers[2]) = <<"W", "e", "i", "g", "h", "t">>
                        /\ strip(headers[3]) = <<"U", "n", "i", "t", "s">>
            parses(line) ==
                LET values == split(strip(line), ",")
                IN  /\ Len(values) = 3
                    /\ parse_csv_date(values[1], 0).ok
                    /\ parse_csv_weight(values[2], 0).ok
                    /\ parse_csv_units(values[3], 0).ok
            offending == {n \in 2 .. Len(lines) :
                            strip(lines[n]) # <<>> /\ ~parses(lines[n])}
        IN  ( /\ last'.op = "add_entries_from_csv"
              /\ expected
              /\ offending # {}
              /\ add_entries_from_csv(user_id, [decodes |-> TRUE, text |-> csv]) )
            => /\ last'.ex = "WeightLogError"
               /\ \E n \in offending :
                    /\ \A m \in offending : n <= m
                    /\ last'.detail \in
                         {"Expected values on line " \o ToString(n),
                          "Unable to parse date on line " \o ToString(n),
                          "Unable to parse weight on line " \o ToString(n),
                          "Unable to parse units on line " \o ToString(n)}
               /\ entries' = entries
               /\ entries_id_seq' = entries_id_seq]_vars

\* The import of the file with a good line 2, a blank line 3 and two values
\* on line 4 has failed naming line 4, and the entry of line 2 is not stored
C20_Witness ==
    /\ last.op = "add_entries_from_csv"
    /\ last.ex = "WeightLogError"
    /\ last.detail = "Expected values on line 4"
    /\ entries = {}

\* C22: after an import that succeeded, for every date of the file the user
\* has exactly one entry, with the weight and unit of the last line of that
\* date; it has the id of the entry the user had for the date, or an id no
\* stored entry had when there was none; the entries of the user for other
\* dates and the entries of other users are the same before and after, and
\* the file gave one row for each line after the header that is not blank.
C22_ImportUpserts ==
    [][\A user_id \in UserIds, csv \in CsvTexts :
        LET parsed == ParsedCsv[user_id, csv]
            rows == parsed.value
            lines == split(csv, "\n")
            dates == {rows[i].date : i \in 1 .. Len(rows)}
            final(d) == rows[CHOOSE i \in 1 .. Len(rows) :
                                /\ rows[i].date = d
                                /\ \A j \in (i + 1) .. Len(rows) : rows[j].date # d]
        IN  ( /\ last'.op = "add_entries_from_csv"
              /\ last'.ex = "none"
              /\ parsed.ok
              /\ add_entries_from_csv(user_id, [decodes |-> TRUE, text |-> csv]) )
            => /\ Len(rows) = Cardinality({n \in 2 .. Len(lines) :
                                              strip(lines[n]) # <<>>})
               /\ \A d \in dates :
                    LET old == {c \in entries : c.user_id = user_id /\ c.date = d}
                        new == {c \in entries' : c.user_id = user_id /\ c.date = d}
                    IN  /\ Cardinality(new) = 1
                        /\ \A n \in new :
                            /\ n.weight = final(d).weight
                            /\ n.metric = final(d).is_metric
                            /\ \A c \in old : n.id = c.id
                            /\ old = {} => \A c \in entries : c.id # n.id
               /\ \A c \in entries :
                    (c.user_id # user_id \/ c.date \notin dates) => c \in entries'
               /\ \A n \in entries' :
                    (n.user_id # user_id \/ n.date \notin dates) => n \in entries]_vars

\* An import has succeeded; the user's first entry has the weight and unit
\* of the file, 70.04 lb, and the entry of another user is stored
C22_Witness ==
    /\ last.op = "add_entries_from_csv"
    /\ last.ex = "none"
    /\ \E r1 \in entries, r2 \in entries :
        /\ r1.id = IDENTITY_START /\ r1.user_id = IDENTITY_START
        /\ r1.weight = 7004 /\ ~r1.metric
        /\ r2.user_id # r1.user_id

\* C23: the text get_entries_csv returns is accepted by the importer, and
\* read back it gives one entry for each stored entry of the user, with the
\* date of the stored entry, the user's unit, and the weight get_entries
\* gives rounded to one decimal (metric) or to a whole number (imperial).
C23_ExportRoundTrips ==
    [][\A u \in get_users :
        ( /\ last'.op = "get_entries_csv"
          /\ Service_get_entries_csv(u) )
        => LET back == create_entries_from_csv(u.id, last'.ret)
               got == get_entries(u)
           IN  /\ back.ok
               /\ Len(back.value) = Len(got)
               /\ \A i \in 1 .. Len(got) :
                    /\ back.value[i].date = got[i].date
                    /\ back.value[i].is_metric = u.metric
                    /\ back.value[i].weight =
                            IF u.metric THEN round_1(got[i].weight)
                            ELSE round_0(got[i].weight)]_vars

\* C21: the rows of a file are saved in one transaction: when the import
\* fails while saving a row, the stored entries are what they were and none
\* of the rows of the file that were saved before is stored.
C21_ImportIsOneTransaction ==
    [][\A w \in Writers :
        ( /\ txns[w].op = "add_entries_from_csv"
          /\ txns[w].status = "active"
          /\ txns'[w].status = "failed" )
        => /\ entries' = entries
           /\ \A x \in txns[w].writes : x \notin entries']_vars

\* C21 as stated: when the import fails while saving a later row, the rows
\* of the file that were saved before it are stored.
C21_ImportCommitsRowByRow ==
    [][\A w \in Writers :
        ( /\ txns[w].op = "add_entries_from_csv"
          /\ txns[w].status = "active"
          /\ txns[w].writes # {}
          /\ txns'[w].status = "failed" )
        => \A x \in txns[w].writes : x \in entries']_vars

\* An import has failed at its second row, after it saved its first, and no
\* entry of the first row's date is stored
C21_Witness ==
    \E w \in Writers :
        /\ txns[w].op = "add_entries_from_csv"
        /\ txns[w].status = "failed"
        /\ Len(txns[w].todo) = 1
        /\ \A r \in entries : r.date # Date(2022, 3, 22)

----------------------------------------------------------------------------
(* Properties of the deployment *)

\* C24: no start of the backend raises an error; a start that finds the
\* database changes nothing on the server and no row of users and entries;
\* the schema row is written only by the start that created the database;
\* and when a start is over the database, its user and the tables exist and
\* table "schema" holds the one schema row.
C24_ProvisioningIdempotent ==
    [][ /\ proc'.pc # "failed"
        /\ (~NotStarting /\ (proc.db_exists \/ proc'.db_exists))
                => server' = server /\ users' = users /\ entries' = entries
        /\ server'.schema # server.schema =>
                /\ ~proc.db_exists
                /\ server.schema = {}
                /\ server'.schema = {SchemaRow}
        /\ proc'.pc = "running" =>
                /\ server'.database /\ server'.db_user /\ server'.tables
                /\ server'.schema = {SchemaRow} ]_vars

\* A start on the provisioned database is over, and a user added before it
\* is stored
C24_Witness ==
    /\ proc.pc = "running"
    /\ proc.db_exists
    /\ users # {}
    /\ server = ProvisionedServer

\* C25: the stored rows of users, entries and schema change in no step of a
\* restore but its commit, which is reached only after the three deletes and
\* the dump ran without error and stores exactly the rows of the dump; a
\* restore that raises leaves the rows that were stored when it began; when
\* the dump failed the error names the file and says its SQL failed to run,
\* and when a delete failed it says neither.
C25_RestoreAllOrNothing ==
    [][ proc.name = "restore" =>
        /\ <<users', entries', server'.schema>> # <<users, entries, server.schema>> =>
                /\ proc.pc = "commit"
                /\ ~proc.execute_failed /\ proc.error = ""
                /\ View(users', entries', server'.schema)
                      = cur_execute(View({}, {}, {}), RestoreFiles[proc.filename], 1).view
        /\ (last'.op = "restore" /\ last'.ex # "none") =>
                /\ View(users', entries', server'.schema) = proc.before
                /\ proc.failed_in = "execute" <=>
                        last'.detail = "Unable to restore database.\nThe SQL in "
                                       \o proc.filename \o " failed to run."
                /\ proc.failed_in = "delete" <=>
                        last'.detail = "Unable to restore database."
        /\ (last'.op = "restore" /\ last'.ex = "none") =>
                cur_execute(View({}, {}, {}), RestoreFiles[proc.filename], 1).ok ]_vars

\* A restore whose dump failed after its deletes has raised, and the user
\* and the entry that were stored before it are stored
C25_Witness ==
    /\ last.op = "restore"
    /\ last.detail = "Unable to restore database.\nThe SQL in cut.sql failed to run."
    /\ \E u \in users : u.goal_weight = 6800
    /\ entries # {}

\* C27: do_init fails with the message of the first check that fails, in the
\* order homepage, existing deployment, entropy below 128; when it fails no
\* directory and no file is created or changed; it changes directories and
\* files only when no deployment exists, and then both directories exist and
\* the key files hold the two passwords and the token key it generated.
C27_InitChecksBeforeChanges ==
    [][\A homepage \in Homepages, entropy_avail \in EntropyAvail :
        (\E depl_env \in {"dev", "prod"}, postgres_password \in generate_password,
            db_password \in generate_password, token_key \in token_hex :
            /\ do_init(homepage, depl_env, entropy_avail, postgres_password,
                       db_password, token_key)
            /\ last'.ex = "none" =>
                    /\ files'.file[KEYS_DATABASE_FILE] =
                            write_env_var(POSTGRES_PASSWORD, postgres_password)
                    /\ files'.file[KEYS_BACKEND_FILE] =
                            write_env_var(DB_PASSWORD, db_password)
                            \o write_env_var(TOKEN_KEY_NAME, token_key))
        /\ last'.op = "do_init"
        =>  /\ last'.ex = "AdminError" <=>
                \/ homepage = <<"w", "l">>
                \/ files.config_dir \/ files.docker
                \/ entropy_avail < 128
            /\ homepage = <<"w", "l">> => last'.detail = "--homepage needs to be a URL"
            /\ (homepage = HOMEPAGE /\ (files.config_dir \/ files.docker)) =>
                    last'.detail = "An existing deployment was found. To remove it run:\nwl-admin docker rm"
            /\ (homepage = HOMEPAGE /\ ~files.config_dir /\ ~files.docker
                    /\ entropy_avail < 128) =>
                    last'.detail = "Not enough entropy to create passwords and keys"
            /\ last'.ex = "AdminError" => files' = files
            /\ files' # files =>
                    /\ ~files.config_dir /\ ~files.keys_dir
                    /\ DOMAIN files.file \cap {CONFIG_FILE, KEYS_DATABASE_FILE,
                                               KEYS_BACKEND_FILE} = {}
                    /\ files'.config_dir /\ files'.keys_dir ]_vars

\* do_init was refused because a deployment exists, whose key files are there
C27_Witness ==
    /\ last.op = "do_init"
    /\ last.ex = "AdminError"
    /\ last.detail = "An existing deployment was found. To remove it run:\nwl-admin docker rm"
    /\ KEYS_BACKEND_FILE \in DOMAIN files.file

\* The lines of keys-backend.env that are not empty and do not hold "=" once
C30_BadLines ==
    LET lines == split(files.file[KEYS_BACKEND_FILE], "\n")
    IN  {i \in 1 .. Len(lines) :
            /\ \E j \in 1 .. Len(lines[i]) : lines[i][j] \notin Whitespace
            /\ Cardinality({j \in 1 .. Len(lines[i]) : lines[i][j] = "="}) # 1}

\* C30: when the key files are as do_init wrote them, with any passwords and
\* token key it can generate, load_keys returns and stores exactly the three
\* values under their names, without the quotes; lookup_key returns the value
\* stored under a name; UserManager accepts a loaded token key that do_init
\* generated; and when a line of keys-backend.env does not split into a name
\* and a value, load_keys raises an error that names the first such line.
C30_KeysRoundTrip ==
    [][ /\ last'.op = "load_keys" =>
            /\ \A postgres_password \in generate_password,
                  db_password \in generate_password, token_key \in token_hex :
                    files.file = DeployedFiles(HOMEPAGE, "prod", postgres_password,
                                               db_password, token_key).file
                    =>  /\ last'.ex = "none"
                        /\ DOMAIN keys' = {POSTGRES_PASSWORD, DB_PASSWORD, TOKEN_KEY_NAME}
                        /\ keys'[POSTGRES_PASSWORD] = postgres_password
                        /\ keys'[DB_PASSWORD] = db_password
                        /\ keys'[TOKEN_KEY_NAME] = token_key
            /\ \A i \in C30_BadLines :
                    (\A j \in C30_BadLines : i <= j) =>
                        /\ last'.ex = "WeightLogError"
                        /\ last'.detail = "Unexpected key entry on line " \o ToString(i)
                                          \o " of " \o KEYS_BACKEND_FILE
        /\ \A key_name \in KeyNames :
                (lookup_key(key_name) /\ last'.op = "lookup_key"
                    /\ key_name \in DOMAIN keys)
                => last'.ret = <<keys[key_name]>> /\ last'.ex = "none"
        /\ (last'.op = "UserManager.__init__" /\ TOKEN_KEY_NAME \in DOMAIN keys) =>
                (keys[TOKEN_KEY_NAME] \in token_hex => last'.ex = "none") ]_vars

\* The keys were loaded from the files do_init wrote, and UserManager took
\* the token key
C30_Witness ==
    /\ DOMAIN keys = {POSTGRES_PASSWORD, DB_PASSWORD, TOKEN_KEY_NAME}
    /\ keys[TOKEN_KEY_NAME] \in token_hex
    /\ keys[DB_PASSWORD] \in generate_password
    /\ last.op = "UserManager.__init__"
    /\ last.ex = "none"

\* C26: an import of a CSV file that fails reaches the caller as an
\* HTTPException, never as another exception, and its status is a client
\* error (400 to 499) unless the rows could not be saved.
C26_DomainErrorsAreClientErrors ==
    (last.op = "add_entries_from_csv" /\ last.ex # "none") =>
        /\ last.ex = "HTTPException"
        /\ \/ last.status \in BAD_REQUEST .. (INTERNAL_SERVER_ERROR - 1)
           \/ last.detail = "Unable to save entry"

\* C28: a request made with the token of a user that adds, updates or deletes
\* an entry, deletes all entries or imports a CSV file leaves every stored
\* entry of every other user as it is, and no stored entry gets another
\* owner.
C28_EntryChangedOnlyByOwner ==
    [][ /\ \A user \in get_users :
            EntryRequest(user) =>
                {r \in entries : r.user_id # user.id}
                    = {r \in entries' : r.user_id # user.id}
        /\ \A r \in entries, changed \in entries' :
                r.id = changed.id => r.user_id = changed.user_id ]_vars

\* C29: whenever a start is over, the tables and exactly one schema row
\* exist, also when an earlier start stopped after it created the database.
C29_StartupCompletesProvisioning ==
    proc.pc = "running" => server.tables /\ Cardinality(server.schema) = 1

----------------------------------------------------------------------------
(* Properties of requests that run at the same time *)

\* C15: at most one get_entries_graph call is between pyplot.figure and the
\* end of pyplot.savefig at any time, and while one is there the plot lock
\* is locked.
C15_OneRenderAtATime ==
    LET drawing == {r \in Requests : graph[r].pc \in DrawAndEncode}
    IN  /\ Cardinality(drawing) <= 1
        /\ drawing # {} => plot_lock.locked

\* One request is about to encode while another waits for the lock.
C15_Witness ==
    \E r1 \in Requests, r2 \in Requests :
        /\ graph[r1].pc = "savefig"
        /\ graph[r2].pc = "waiting"
        /\ plot_lock.waiters # <<>>

\* C16: with the transactions of the writers interleaved in any way, no two
\* stored entries share (user id, date); no two open transactions hold
\* uncommitted rows of different ids for one (user id, date), and no open
\* transaction holds one next to a committed row of another id, so of the
\* writers that try to create the pair at most one gets to commit it; two
\* writers have both committed a row for one pair, under different ids, only
\* when a committed update moved a row of that pair to another date; a
\* writer that failed has written nothing.
C16_ConcurrentWriters ==
    /\ \A r1 \in entries, r2 \in entries : SameKey(r1, r2) => r1 = r2
    /\ \A w1 \in Writers : \A w2 \in Writers \ {w1} :
            (txns[w1].status = "active" /\ txns[w2].status = "active") =>
                \A r1 \in txns[w1].writes, r2 \in txns[w2].writes :
                    SameKey(r1, r2) => r1.id = r2.id
    /\ \A w \in Writers : txns[w].status = "active" =>
            \A r \in txns[w].writes, c \in txn_visible(entries, txns[w].writes) :
                SameKey(r, c) => r.id = c.id
    /\ \A w1 \in Writers : \A w2 \in Writers \ {w1} :
            (txns[w1].status = "committed" /\ txns[w2].status = "committed") =>
                \A r1 \in txns[w1].writes, r2 \in txns[w2].writes :
                    (SameKey(r1, r2) /\ r1.id # r2.id) =>
                        \E w3 \in Writers :
                            /\ txns[w3].status = "committed"
                            /\ \E old \in txns[w3].replaced :
                                    /\ SameKey(old, r1)
                                    /\ \A x \in txns[w3].writes :
                                            x.id = old.id => ~SameKey(x, old)
    /\ \A w \in Writers : txns[w].status = "failed" => txns[w].writes = {}

\* One add_entry committed its entry and another add_entry for the same date
\* failed as a duplicate.
C16_Witness ==
    \E w1 \in Writers, w2 \in Writers :
        /\ txns[w1].op = "add_entry" /\ txns[w1].status = "committed"
        /\ txns[w2].op = "add_entry" /\ txns[w2].status = "failed"
        /\ txns[w2].error = "already exists"
        /\ \E r \in txns[w1].writes : r \in entries

====
